---- MODULE Spec2Model ----
(***************************************************************************)
(* go-hachi: the CHIP-8 virtual machine (package hachi: Chip8, New, Load,  *)
(* LoadRaw, Tick) and the linear disassembler (DisassembleSimple), as a    *)
(* state machine.  The machine is the record c (the *Chip8 instance); the  *)
(* host that drives it (New, Load, the Tick loop, the input handler, the   *)
(* wall clock, the disassembly after the run) is the remaining variables.  *)
(***************************************************************************)
EXTENDS Integers, Sequences, FiniteSets, TLC

VARIABLES
    c,            \* the *Chip8 instance returned by New
    bigEndian,    \* byte order of the build (decides how Stack aliases Memory)
    settings,     \* the Chip8Settings the host passed to New
    file,         \* the bytes of the program file the host loads
    phase,        \* the host's position: "new", "run", "failed", "crashed", "done"
    clock,        \* the wall clock read by time.Now(), in time units
    ticks,        \* number of calls of Tick so far
    last,         \* the last call: its name, the word it fetched, what it returned
    disassembly   \* what DisassembleSimple returned (res, err)

vars == <<c, bigEndian, settings, file, phase, clock, ticks, last, disassembly>>

-----------------------------------------------------------------------------
(* Fixed-width integer arithmetic of Go: uint8 and uint16 wrap.            *)

Byte == 0..255

U8(n) == n % 256

U16(n) == n % 65536

Min(a, b) == IF a < b THEN a ELSE b

RECURSIVE BitAnd(_, _)
BitAnd(a, b) ==
    IF a = 0 \/ b = 0 THEN 0
    ELSE (a % 2) * (b % 2) + 2 * BitAnd(a \div 2, b \div 2)

RECURSIVE BitOr(_, _)
BitOr(a, b) ==
    IF a = 0 THEN b
    ELSE IF b = 0 THEN a
    ELSE (IF a % 2 = 1 \/ b % 2 = 1 THEN 1 ELSE 0) + 2 * BitOr(a \div 2, b \div 2)

RECURSIVE BitXor(_, _)
BitXor(a, b) ==
    IF a = 0 THEN b
    ELSE IF b = 0 THEN a
    ELSE ((a + b) % 2) + 2 * BitXor(a \div 2, b \div 2)

RECURSIVE Pow2(_)
Pow2(n) == IF n = 0 THEN 1 ELSE 2 * Pow2(n - 1)

\* a << n and a >> n on a uint8
Shl8(a, n) == U8(a * Pow2(n))

Shr8(a, n) == a \div Pow2(n)

\* ^a on a uint8 and on a uint16
Not8(a) == 255 - a

Not16(a) == 65535 - a

-----------------------------------------------------------------------------
(* Errors returned by the package.                                         *)

NoErr == "nil"

OutOfMemoryErr == "OutOfMemoryErr"

StackOverflowErr == "StackOverflowErr"

BadCodeErr == "BadCodeErr"

OverflowErr == "OverflowErr"

AccessErr == "AccessErr"

\* a run-time panic of the Go program (index or slice bounds out of range)
Panic == "panic"

-----------------------------------------------------------------------------
(* Settings.                                                               *)

\* Chip8Settings.Validate: TRUE when it returns nil
Validate(s) ==
    /\ s.Width % 8 = 0
    /\ s.Height % 8 = 0
    /\ ~(s.Width < 8)
    /\ ~(s.Height < 15)
    /\ (s.Realistic =>
            /\ ~(s.StackSize > 12)
            /\ ~(U16(s.Width * s.Height) > 2048))

DefaultSettings ==
    [MemorySize |-> \h1000, StackSize |-> 12, Width |-> 64, Height |-> 32,
     Realistic |-> TRUE, LegacyMode |-> FALSE]

\* time units per second: the resolution of the modelled clock
Second == 120

\* first address of a loaded program
ProgramStart == \h200

\* realistic mode: where Stack and Screen live inside Memory
StackBase == \hEA0

ScreenBase == \hF00

Font ==
    << \hF0, \h90, \h90, \h90, \hF0,
       \h20, \h60, \h20, \h20, \h70,
       \hF0, \h10, \hF0, \h80, \hF0,
       \hF0, \h10, \hF0, \h10, \hF0,
       \h90, \h90, \hF0, \h10, \h10,
       \hF0, \h80, \hF0, \h10, \hF0,
       \hF0, \h80, \hF0, \h90, \hF0,
       \hF0, \h10, \h20, \h40, \h40,
       \hF0, \h90, \hF0, \h90, \hF0,
       \hF0, \h90, \hF0, \h10, \hF0,
       \hF0, \h90, \hF0, \h90, \h90,
       \hE0, \h90, \hE0, \h90, \hE0,
       \hF0, \h80, \h80, \h80, \hF0,
       \hE0, \h90, \h90, \h90, \hE0,
       \hF0, \h80, \hF0, \h80, \hF0,
       \hF0, \h80, \hF0, \h80, \h80 >>

\* the nil *waitInputInfo
NoWait == [waiting |-> FALSE, register |-> 0, zeroBits |-> 0]

\* the zero time.Time (lastTimerUpdate.IsZero())
ZeroTime == 0

-----------------------------------------------------------------------------
(* The Stack and Screen slices.  In realistic mode both are views of       *)
(* Memory (shared backing array): Stack is the bytes from StackBase read   *)
(* as uint16 words in the byte order of the build, Screen is the bytes     *)
(* from ScreenBase.  Otherwise they are arrays of their own.               *)

MemLen(m) == m.size

\* len(c.Stack)
StackLen(m) == m.Stack.len

\* len(c.Screen)
ScreenLen(m) == m.Screen.len

\* c.Stack[i]
StackGet(m, be, i) ==
    IF m.Stack.aliased
    THEN LET b0 == m.Memory[m.Stack.base + 2 * i]
             b1 == m.Memory[m.Stack.base + 2 * i + 1]
         IN  IF be THEN b0 * 256 + b1 ELSE b1 * 256 + b0
    ELSE m.Stack.data[i]

\* mutant: every store goes to the slot below i, slot 0 for i = 0
StackSet_OneSlotLow(m, be, i, v) ==
    LET j == IF i > 0 THEN i - 1 ELSE 0
    IN  IF m.Stack.aliased
        THEN LET hi == v \div 256
                 lo == v % 256
                 a  == m.Stack.base + 2 * j
             IN  [m EXCEPT !.Memory = [@ EXCEPT ![a] = IF be THEN hi ELSE lo,
                                                ![a + 1] = IF be THEN lo ELSE hi]]
        ELSE [m EXCEPT !.Stack.data[j] = v]

\* c.Stack[i] = v
StackSet(m, be, i, v) ==
    IF m.Stack.aliased
    THEN LET hi == v \div 256
             lo == v % 256
             a  == m.Stack.base + 2 * i
         IN  [m EXCEPT !.Memory = [@ EXCEPT ![a] = IF be THEN hi ELSE lo,
                                            ![a + 1] = IF be THEN lo ELSE hi]]
    ELSE [m EXCEPT !.Stack.data[i] = v]

\* c.Screen[i]
ScreenGet(m, i) ==
    IF m.Screen.aliased THEN m.Memory[m.Screen.base + i] ELSE m.Screen.data[i]

\* c.Screen[i] = v
ScreenSet(m, i, v) ==
    IF m.Screen.aliased
    THEN [m EXCEPT !.Memory[m.Screen.base + i] = v]
    ELSE [m EXCEPT !.Screen.data[i] = v]

-----------------------------------------------------------------------------
(* New.                                                                    *)

\* the registry of drivers after the packages' init()
Drivers == {"null", "termloop"}

\* the Stack slice New builds: StackSize bytes of Memory reinterpreted as
\* uint16 (header.Len /= 2), or make([]uint16, StackSize)
NewStack(s) ==
    IF s.Realistic
    THEN [aliased |-> TRUE, base |-> StackBase, len |-> s.StackSize \div 2,
          data |-> <<>>]
    ELSE [aliased |-> FALSE, base |-> 0, len |-> s.StackSize,
          data |-> [i \in 0..(s.StackSize - 1) |-> 0]]

NewScreen(s) ==
    LET n == U16(s.Width * s.Height) \div 8
    IN  IF s.Realistic
        THEN [aliased |-> TRUE, base |-> ScreenBase, len |-> n, data |-> <<>>]
        ELSE [aliased |-> FALSE, base |-> 0, len |-> n,
              data |-> [i \in 0..(n - 1) |-> 0]]

\* the slice expressions of realistic mode stay inside Memory
NewInBounds(s) ==
    s.Realistic =>
        /\ StackBase <= s.MemorySize
        /\ U16(StackBase + s.StackSize) <= s.MemorySize
        /\ StackBase <= U16(StackBase + s.StackSize)
        /\ ScreenBase <= s.MemorySize
        /\ ScreenBase + U16(s.Width * s.Height) \div 8 <= s.MemorySize

\* the instance New returns for a registered driver and valid settings
New(driver, s) ==
    [Memory |-> [a \in 0..(s.MemorySize - 1) |->
                    IF a < Min(Len(Font), s.MemorySize) THEN Font[a + 1] ELSE 0],
     size |-> s.MemorySize,
     V |-> [r \in 0..15 |-> 0],
     I |-> 0,
     Stack |-> NewStack(s),
     SP |-> -1,
     PC |-> 0,
     DT |-> 0,
     ST |-> 0,
     Keyboard |-> 0,
     Screen |-> NewScreen(s),
     Width |-> s.Width,
     Height |-> s.Height,
     TimerInterval |-> Second \div 60,
     lastTimerUpdate |-> ZeroTime,
     driver |-> driver,
     wii |-> NoWait,
     legacy |-> s.LegacyMode]

-----------------------------------------------------------------------------
(* Load and LoadRaw.                                                       *)

\* copy(c.Memory[0x200:], program)
CopyProgram(m, program) ==
    [m EXCEPT !.Memory = [a \in DOMAIN @ |->
        IF a >= ProgramStart /\ a - ProgramStart < Len(program)
        THEN program[a - ProgramStart + 1] ELSE @[a]]]

\* Chip8.Load on a readable file holding the bytes program
Load(m, program) ==
    IF Len(program) > MemLen(m) - ProgramStart
    THEN [m |-> m, err |-> OutOfMemoryErr, size |-> Len(program)]
    ELSE [m |-> [CopyProgram(m, program) EXCEPT !.PC = ProgramStart],
          err |-> NoErr, size |-> Len(program)]

\* mutant: a program that fills memory to its last byte is refused
LoadRaw_RefusesExactFit(m, program) ==
    IF Len(program) >= MemLen(m) - ProgramStart
    THEN [m |-> m, err |-> OutOfMemoryErr, size |-> Len(program)]
    ELSE [m |-> CopyProgram(m, program), err |-> NoErr, size |-> Len(program)]

\* Chip8.LoadRaw
LoadRaw(m, program) ==
    IF Len(program) > MemLen(m) - ProgramStart
    THEN [m |-> m, err |-> OutOfMemoryErr, size |-> Len(program)]
    ELSE [m |-> CopyProgram(m, program), err |-> NoErr, size |-> Len(program)]

-----------------------------------------------------------------------------
(* The instructions of Tick.  Each operator takes the machine after the    *)
(* fetch (PC already advanced by 2) and gives the machine after the        *)
(* instruction with the error Tick returns and the driver calls it made.   *)

Ok(m) == [m |-> m, err |-> NoErr, cls |-> 0, upd |-> 0]

\* mutant: the failing case falls out of the switch without its return
Fail_ReturnsNil(m, e) == Ok(m)

Fail(m, e) == [m |-> m, err |-> e, cls |-> 0, upd |-> 0]

\* uint16(opcode[0]&0x0F)<<8 | uint16(opcode[1])
Nnn(b0, b1) == (b0 % 16) * 256 + b1

\* opcode[0]&0x0F
RegX(b0) == b0 % 16

\* opcode[1]&0xF0>>4
RegY(b1) == b1 \div 16

\* 00E0 CLS
Cls(m) ==
    LET cleared ==
            IF m.Screen.aliased
            THEN [m EXCEPT !.Memory = [a \in DOMAIN @ |->
                    IF a >= m.Screen.base /\ a < m.Screen.base + m.Screen.len
                    THEN 0 ELSE @[a]]]
            ELSE [m EXCEPT !.Screen.data = [i \in DOMAIN @ |-> 0]]
    IN  [m |-> cleared, err |-> NoErr, cls |-> 1, upd |-> 0]

\* mutant: RET jumps back without popping
Ret_KeepsSP(m, be) ==
    IF m.SP < 0
    THEN Fail(m, StackOverflowErr)
    ELSE Ok([m EXCEPT !.PC = StackGet(m, be, m.SP)])

\* 00EE RET
Ret(m, be) ==
    IF m.SP < 0
    THEN Fail(m, StackOverflowErr)
    ELSE Ok([m EXCEPT !.PC = StackGet(m, be, m.SP), !.SP = m.SP - 1])

\* 1NNN JP NNN
Jp(m, nnn) == Ok([m EXCEPT !.PC = nnn])

\* mutant: SP is incremented before the stack is found full
Call_CountsBeforeCheck(m, be, at) ==
    IF m.SP >= StackLen(m) - 1
    THEN Fail([m EXCEPT !.SP = m.SP + 1], StackOverflowErr)
    ELSE LET pushed == StackSet([m EXCEPT !.SP = m.SP + 1], be, m.SP + 1, m.PC)
         IN  Ok([pushed EXCEPT
                    !.PC = Nnn(pushed.Memory[at], pushed.Memory[at + 1])])

\* 2NNN CALL NNN.  opcode is a slice of Memory at the fetch address at: the
\* target is read from it after the return address was stored.
Call(m, be, at) ==
    IF m.SP >= StackLen(m) - 1
    THEN Fail(m, StackOverflowErr)
    ELSE LET pushed == StackSet([m EXCEPT !.SP = m.SP + 1], be, m.SP + 1, m.PC)
         IN  Ok([pushed EXCEPT
                    !.PC = Nnn(pushed.Memory[at], pushed.Memory[at + 1])])

\* mutant: a taken skip moves PC by one byte
Skip_OneByte(m) == [m EXCEPT !.PC = U16(m.PC + 1)]

\* c.PC += 2
Skip(m) == [m EXCEPT !.PC = U16(m.PC + 2)]

\* 3XNN SE VX,NN
Se(m, x, nn) == Ok(IF m.V[x] = nn THEN Skip(m) ELSE m)

\* 4XNN SNE VX,NN
Sne(m, x, nn) == Ok(IF m.V[x] # nn THEN Skip(m) ELSE m)

\* 5XY0 SE VX,VY
SeRegister(m, x, y) == Ok(IF m.V[x] = m.V[y] THEN Skip(m) ELSE m)

\* 6XNN LD VX,NN
Ld(m, x, nn) == Ok([m EXCEPT !.V[x] = nn])

\* 7XNN ADD VX,NN
Add(m, x, nn) == Ok([m EXCEPT !.V[x] = U8(@ + nn)])

\* 8XY0 LD VX,VY
LdRegister(m, x, y) == Ok([m EXCEPT !.V[x] = m.V[y]])

\* 8XY1 OR VX,VY
Or(m, x, y) == Ok([m EXCEPT !.V[x] = BitOr(@, m.V[y])])

\* 8XY2 AND VX,VY
And(m, x, y) == Ok([m EXCEPT !.V[x] = BitAnd(@, m.V[y])])

\* 8XY3 XOR VX,VY
Xor(m, x, y) == Ok([m EXCEPT !.V[x] = BitXor(@, m.V[y])])

\* mutant: the carry test is off by one (a sum of exactly 256 sets no carry)
AddRegister_CarryOffByOne(m, x, y) ==
    LET result == m.V[x] + m.V[y]
        stored == [m EXCEPT !.V[x] = U8(result)]
    IN  Ok([stored EXCEPT !.V[15] = IF result > 256 THEN 1 ELSE 0])

\* 8XY4 ADD VX,VY: the sum is stored first, the carry flag after it
AddRegister(m, x, y) ==
    LET result == m.V[x] + m.V[y]
        stored == [m EXCEPT !.V[x] = U8(result)]
    IN  Ok([stored EXCEPT !.V[15] = IF result >= 256 THEN 1 ELSE 0])

\* 8XY5 SUB VX,VY: the flag is written first, then c.V[x] -= c.V[y]
SubRegister(m, x, y) ==
    LET flagged == [m EXCEPT !.V[15] = IF m.V[x] >= m.V[y] THEN 1 ELSE 0]
    IN  Ok([flagged EXCEPT !.V[x] = U8(256 + flagged.V[x] - flagged.V[y])])

\* mutant: the legacy switch is ignored, VX is always shifted in place
Shr_ModeIgnored(m, x, y) ==
    LET flagged == [m EXCEPT !.V[15] = BitAnd(m.V[x], 1)]
    IN  Ok([flagged EXCEPT !.V[x] = Shr8(flagged.V[x], 1)])

\* shr[false] and shr[true]
Shr(m, x, y) ==
    IF ~m.legacy
    THEN LET flagged == [m EXCEPT !.V[15] = BitAnd(m.V[x], 1)]
         IN  Ok([flagged EXCEPT !.V[x] = Shr8(flagged.V[x], 1)])
    ELSE LET flagged == [m EXCEPT !.V[15] = BitAnd(m.V[y], 1)]
         IN  Ok([flagged EXCEPT !.V[x] = Shr8(flagged.V[y], 1)])

\* mutant: equal operands are taken as a borrow
Subn_BorrowOnEqual(m, x, y) ==
    LET flagged == [m EXCEPT !.V[15] = IF m.V[x] >= m.V[y] THEN 0 ELSE 1]
    IN  Ok([flagged EXCEPT !.V[x] = U8(256 + flagged.V[y] - flagged.V[x])])

\* 8XY7 SUBN VX,VY
Subn(m, x, y) ==
    LET flagged == [m EXCEPT !.V[15] = IF m.V[x] > m.V[y] THEN 0 ELSE 1]
    IN  Ok([flagged EXCEPT !.V[x] = U8(256 + flagged.V[y] - flagged.V[x])])

\* shl[false] and shl[true]
Shl(m, x, y) ==
    IF ~m.legacy
    THEN LET flagged == [m EXCEPT !.V[15] = BitAnd(m.V[x], 128)]
         IN  Ok([flagged EXCEPT !.V[x] = Shl8(flagged.V[x], 1)])
    ELSE LET flagged == [m EXCEPT !.V[15] = BitAnd(m.V[y], 128)]
         IN  Ok([flagged EXCEPT !.V[x] = Shl8(flagged.V[y], 1)])

\* 9XY0 SNE VX,VY
SneRegister(m, x, y) == Ok(IF m.V[x] # m.V[y] THEN Skip(m) ELSE m)

\* ANNN LD I,NNN
LdI(m, nnn) == Ok([m EXCEPT !.I = nnn])

\* BNNN JP V0,NNN: nnn | lo + V[0] - 2 groups as ((nnn | lo) + V[0]) - 2
JpV0(m, nnn) == Ok([m EXCEPT !.PC = U16(65536 + nnn + m.V[0] - 2)])

\* CXNN RND VX,NN, rnd the byte uint8(rand.Uint32())
Rnd(m, x, nn, rnd) == Ok([m EXCEPT !.V[x] = BitAnd(rnd, nn)])

-----------------------------------------------------------------------------
(* DXYN DRW VX,VY,N.                                                       *)

\* mutant: only the first of the two bytes of a row is compared
RECURSIVE Collision_FirstByteOnly(_, _, _, _, _, _, _, _)
Collision_FirstByteOnly(m, mask, oldval1, oldval2, index, nextIndex, mask1, bitoff) ==
    IF m.V[15] # 0 THEN m
    ELSE IF BitAnd(oldval1, mask) > BitAnd(BitAnd(ScreenGet(m, index), mask1), mask)
    THEN [m EXCEPT !.V[15] = 1]
    ELSE IF mask = 128 THEN m
    ELSE Collision_FirstByteOnly(m, mask * 2, oldval1, oldval2, index, nextIndex,
                                 mask1, bitoff)

\* the collision loop of one row: mask runs 0x01, 0x02, ... 0x80 while VF = 0
RECURSIVE Collision(_, _, _, _, _, _, _, _)
Collision(m, mask, oldval1, oldval2, index, nextIndex, mask1, bitoff) ==
    IF m.V[15] # 0 THEN m
    ELSE IF BitAnd(oldval1, mask) > BitAnd(BitAnd(ScreenGet(m, index), mask1), mask)
    THEN [m EXCEPT !.V[15] = 1]
    ELSE IF bitoff # 0
            /\ BitAnd(oldval2, mask) >
               BitAnd(BitAnd(ScreenGet(m, nextIndex), Not8(mask1)), mask)
    THEN [m EXCEPT !.V[15] = 1]
    ELSE IF mask = 128 THEN m
    ELSE Collision(m, mask * 2, oldval1, oldval2, index, nextIndex, mask1, bitoff)

\* mutant: the spilled bits go to the next byte of the buffer, not to the
\* first byte of the same row
DrwRow_SpillsToNextByte(m, x, y, off) ==
    LET byteWidth  == m.Width \div 8
        byteColumn == U16(y * byteWidth)
        index      == U16(byteColumn + (x \div 8))
        nextIndex  == (index + 1) % ScreenLen(m)
        bitoff     == x % 8
        mask1      == Shr8(255, bitoff)
        mask2      == Not8(mask1)
        oldval1    == BitAnd(ScreenGet(m, index), mask1)
        m1         == ScreenSet(m, index,
                          BitXor(ScreenGet(m, index),
                                 Shr8(m.Memory[m.I + off], bitoff)))
        oldval2    == IF bitoff # 0 THEN BitAnd(ScreenGet(m1, nextIndex), mask2)
                      ELSE 0
        m2         == IF bitoff # 0
                      THEN ScreenSet(m1, nextIndex,
                               BitXor(ScreenGet(m1, nextIndex),
                                      Shl8(m1.Memory[m1.I + off], 8 - bitoff)))
                      ELSE m1
    IN  Collision(m2, 1, oldval1, oldval2, index, nextIndex, mask1, bitoff)

\* one iteration of the row loop: sprite[off] is Memory[I+off], read each time
\* it is used (sprite is a slice of Memory)
DrwRow(m, x, y, off) ==
    LET byteWidth  == m.Width \div 8
        byteColumn == U16(y * byteWidth)
        index      == U16(byteColumn + (x \div 8))
        nextIndex  == U16(byteColumn + ((x \div 8 + 1) % byteWidth))
        bitoff     == x % 8
        mask1      == Shr8(255, bitoff)
        mask2      == Not8(mask1)
        oldval1    == BitAnd(ScreenGet(m, index), mask1)
        m1         == ScreenSet(m, index,
                          BitXor(ScreenGet(m, index),
                                 Shr8(m.Memory[m.I + off], bitoff)))
        oldval2    == IF bitoff # 0 THEN BitAnd(ScreenGet(m1, nextIndex), mask2)
                      ELSE 0
        m2         == IF bitoff # 0
                      THEN ScreenSet(m1, nextIndex,
                               BitXor(ScreenGet(m1, nextIndex),
                                      Shl8(m1.Memory[m1.I + off], 8 - bitoff)))
                      ELSE m1
    IN  Collision(m2, 1, oldval1, oldval2, index, nextIndex, mask1, bitoff)

\* mutant: the row wraps at the width of the screen, not at its height
RECURSIVE DrwRows_WrapsAtWidth(_, _, _, _, _)
DrwRows_WrapsAtWidth(m, x, y, off, rows) ==
    IF off >= rows \/ m.I + off >= MemLen(m) THEN m
    ELSE DrwRows_WrapsAtWidth(DrwRow(m, x, y, off), x,
                              (y + 1) % Min(m.Width, m.Height), off + 1, rows)

\* the row loop: off runs over the indexes of sprite = Memory[I : I+rows],
\* which the checks before the loop keep inside Memory
RECURSIVE DrwRows(_, _, _, _, _)
DrwRows(m, x, y, off, rows) ==
    IF off >= rows \/ m.I + off >= MemLen(m) THEN m
    ELSE DrwRows(DrwRow(m, x, y, off), x, (y + 1) % m.Height, off + 1, rows)

\* mutant: VF is not zeroed before the rows are drawn
Drw_KeepsFlag(m, rx, ry, rows) ==
    LET x == m.V[rx] % m.Width
        y == m.V[ry] % m.Height
    IN  IF 65535 - m.I < rows THEN Fail(m, OverflowErr)
        ELSE IF m.I + rows - 1 >= MemLen(m) THEN Fail(m, AccessErr)
        ELSE [m |-> DrwRows(m, x, y, 0, rows),
              err |-> NoErr, cls |-> 0, upd |-> 1]

\* mutant: VF is zeroed before the checks on I
Drw_ClearsFlagFirst(m, rx, ry, rows) ==
    LET x == m.V[rx] % m.Width
        y == m.V[ry] % m.Height
        z == [m EXCEPT !.V[15] = 0]
    IN  IF 65535 - m.I < rows THEN Fail(z, OverflowErr)
        ELSE IF m.I + rows - 1 >= MemLen(m) THEN Fail(z, AccessErr)
        ELSE [m |-> DrwRows(z, x, y, 0, rows),
              err |-> NoErr, cls |-> 0, upd |-> 1]

Drw(m, rx, ry, rows) ==
    LET x == m.V[rx] % m.Width
        y == m.V[ry] % m.Height
    IN  IF 65535 - m.I < rows THEN Fail(m, OverflowErr)
        ELSE IF m.I + rows - 1 >= MemLen(m) THEN Fail(m, AccessErr)
        ELSE [m |-> DrwRows([m EXCEPT !.V[15] = 0], x, y, 0, rows),
              err |-> NoErr, cls |-> 0, upd |-> 1]

-----------------------------------------------------------------------------
(* Groups E and F.                                                         *)

\* KeyFlags[n] for n in 0..15
KeyFlags(n) == Pow2(n)

\* KeyNumbers[flag]: a flag that is no key of the map reads as 0
KeyNumbers(flag) ==
    IF \E n \in 0..15 : Pow2(n) = flag
    THEN CHOOSE n \in 0..15 : Pow2(n) = flag
    ELSE 0

\* EX9E SKP VX: KeyFlags is indexed by VX
Skp(m, x) ==
    IF m.V[x] > 15 THEN Fail(m, Panic)
    ELSE Ok(IF BitAnd(m.Keyboard, KeyFlags(m.V[x])) # 0 THEN Skip(m) ELSE m)

\* EXA1 SKNP VX
Sknp(m, x) ==
    IF m.V[x] > 15 THEN Fail(m, Panic)
    ELSE Ok(IF BitAnd(m.Keyboard, KeyFlags(m.V[x])) = 0 THEN Skip(m) ELSE m)

\* FX07 LD VX,DT
LdDelayTimer(m, x) == Ok([m EXCEPT !.V[x] = m.DT])

\* FX0A LD VX,K
LdKeyboard(m, x) ==
    Ok([m EXCEPT !.wii = [waiting |-> TRUE, register |-> x,
                          zeroBits |-> Not16(m.Keyboard)]])

\* FX15 LD DT,VX
LdSetDelayTimer(m, x) == Ok([m EXCEPT !.DT = m.V[x]])

\* FX18 LD ST,VX
LdSetSoundTimer(m, x) == Ok([m EXCEPT !.ST = m.V[x]])

\* FX1E ADD I,VX
AddI(m, x) == Ok([m EXCEPT !.I = U16(@ + m.V[x])])

\* FX29 LD I,CHAR VX
LdFont(m, x) == Ok([m EXCEPT !.I = m.V[x] * 5])

\* mutant: the digits are stored in the opposite order
LdBcd_OnesFirst(m, x) ==
    IF m.I + 2 >= MemLen(m) \/ m.I < ProgramStart THEN Fail(m, AccessErr)
    ELSE LET value == m.V[x]
             tens  == value \div 10
         IN  Ok([m EXCEPT !.Memory = [@ EXCEPT ![m.I] = value % 10,
                                               ![m.I + 1] = tens % 10,
                                               ![m.I + 2] = tens \div 10]])

\* FX33 LD [I],BCD VX
LdBcd(m, x) ==
    IF m.I + 2 >= MemLen(m) \/ m.I < ProgramStart THEN Fail(m, AccessErr)
    ELSE LET value == m.V[x]
             tens  == value \div 10
         IN  Ok([m EXCEPT !.Memory = [@ EXCEPT ![m.I + 2] = value % 10,
                                               ![m.I + 1] = tens % 10,
                                               ![m.I] = tens \div 10]])

\* mutant: the loop runs while i < x and leaves VX out
RECURSIVE LdSetMemoryLoop_StopsEarly(_, _, _)
LdSetMemoryLoop_StopsEarly(m, i, x) ==
    IF i >= x THEN m
    ELSE IF ~m.legacy
    THEN LdSetMemoryLoop_StopsEarly(
             [m EXCEPT !.Memory[U16(m.I + i)] = m.V[i]], i + 1, x)
    ELSE LdSetMemoryLoop_StopsEarly(
             [m EXCEPT !.Memory[m.I] = m.V[i], !.I = U16(m.I + 1)], i + 1, x)

\* ldSetMemory[false] and ldSetMemory[true]: the loop from register i to x
RECURSIVE LdSetMemoryLoop(_, _, _)
LdSetMemoryLoop(m, i, x) ==
    IF i > x THEN m
    ELSE IF ~m.legacy
    THEN LdSetMemoryLoop([m EXCEPT !.Memory[U16(m.I + i)] = m.V[i]], i + 1, x)
    ELSE LdSetMemoryLoop([m EXCEPT !.Memory[m.I] = m.V[i], !.I = U16(m.I + 1)],
                         i + 1, x)

\* ldMemory[false] and ldMemory[true]
RECURSIVE LdMemoryLoop(_, _, _)
LdMemoryLoop(m, i, x) ==
    IF i > x THEN m
    ELSE IF ~m.legacy
    THEN LdMemoryLoop([m EXCEPT !.V[i] = m.Memory[U16(m.I + i)]], i + 1, x)
    ELSE LdMemoryLoop([m EXCEPT !.V[i] = m.Memory[m.I], !.I = U16(m.I + 1)],
                      i + 1, x)

\* mutant: the bounds are checked before the 16-bit overflow
BlockCheck_AccessFirst(m, x) ==
    IF m.I + x >= MemLen(m) \/ m.I < ProgramStart THEN AccessErr
    ELSE IF 65535 - m.I < x THEN OverflowErr
    ELSE NoErr

\* the checks FX55 and FX65 make before copying
BlockCheck(m, x) ==
    IF 65535 - m.I < x THEN OverflowErr
    ELSE IF m.I + x >= MemLen(m) \/ m.I < ProgramStart THEN AccessErr
    ELSE NoErr

\* FX55 LD [I],VX
LdSetMemory(m, x) ==
    IF BlockCheck(m, x) # NoErr THEN Fail(m, BlockCheck(m, x))
    ELSE Ok(LdSetMemoryLoop(m, 0, x))

\* FX65 LD VX,[I]
LdMemory(m, x) ==
    IF BlockCheck(m, x) # NoErr THEN Fail(m, BlockCheck(m, x))
    ELSE Ok(LdMemoryLoop(m, 0, x))

-----------------------------------------------------------------------------
(* Tick: the dispatch, the key wait, the fetch and the timers.             *)

\* the case of Tick's switch a word selects, named by its opcode pattern;
\* "invalid" is a default case (return &BadCodeErr{})
Decode(b0, b1) ==
    CASE b0 \div 16 = 0 ->
            IF Nnn(b0, b1) = \h0E0 THEN "00E0"
            ELSE IF Nnn(b0, b1) = \h0EE THEN "00EE" ELSE "0NNN"
      [] b0 \div 16 = 1 -> "1NNN"
      [] b0 \div 16 = 2 -> "2NNN"
      [] b0 \div 16 = 3 -> "3XNN"
      [] b0 \div 16 = 4 -> "4XNN"
      [] b0 \div 16 = 5 -> "5XY0"
      [] b0 \div 16 = 6 -> "6XNN"
      [] b0 \div 16 = 7 -> "7XNN"
      [] b0 \div 16 = 8 ->
            CASE b1 % 16 = 0 -> "8XY0"
              [] b1 % 16 = 1 -> "8XY1"
              [] b1 % 16 = 2 -> "8XY2"
              [] b1 % 16 = 3 -> "8XY3"
              [] b1 % 16 = 4 -> "8XY4"
              [] b1 % 16 = 5 -> "8XY5"
              [] b1 % 16 = 6 -> "8XY6"
              [] b1 % 16 = 7 -> "8XY7"
              [] b1 % 16 = 14 -> "8XYE"
              [] OTHER -> "invalid"
      [] b0 \div 16 = 9 -> "9XY0"
      [] b0 \div 16 = 10 -> "ANNN"
      [] b0 \div 16 = 11 -> "BNNN"
      [] b0 \div 16 = 12 -> "CXNN"
      [] b0 \div 16 = 13 -> "DXYN"
      [] b0 \div 16 = 14 ->
            CASE b1 = \h9E -> "EX9E"
              [] b1 = \hA1 -> "EXA1"
              [] OTHER -> "invalid"
      [] b0 \div 16 = 15 ->
            CASE b1 = \h07 -> "FX07"
              [] b1 = \h0A -> "FX0A"
              [] b1 = \h15 -> "FX15"
              [] b1 = \h18 -> "FX18"
              [] b1 = \h1E -> "FX1E"
              [] b1 = \h29 -> "FX29"
              [] b1 = \h33 -> "FX33"
              [] b1 = \h55 -> "FX55"
              [] b1 = \h65 -> "FX65"
              [] OTHER -> "invalid"

\* the body of the switch for the word b0 b1 fetched at address at
Exec(m, be, at, b0, b1, rnd) ==
    LET op  == Decode(b0, b1)
        x   == RegX(b0)
        y   == RegY(b1)
        nnn == Nnn(b0, b1)
    IN  CASE op = "0NNN" -> Ok(m)
          [] op = "00E0" -> Cls(m)
          [] op = "00EE" -> Ret(m, be)
          [] op = "1NNN" -> Jp(m, nnn)
          [] op = "2NNN" -> Call(m, be, at)
          [] op = "3XNN" -> Se(m, x, b1)
          [] op = "4XNN" -> Sne(m, x, b1)
          [] op = "5XY0" -> SeRegister(m, x, y)
          [] op = "6XNN" -> Ld(m, x, b1)
          [] op = "7XNN" -> Add(m, x, b1)
          [] op = "8XY0" -> LdRegister(m, x, y)
          [] op = "8XY1" -> Or(m, x, y)
          [] op = "8XY2" -> And(m, x, y)
          [] op = "8XY3" -> Xor(m, x, y)
          [] op = "8XY4" -> AddRegister(m, x, y)
          [] op = "8XY5" -> SubRegister(m, x, y)
          [] op = "8XY6" -> Shr(m, x, y)
          [] op = "8XY7" -> Subn(m, x, y)
          [] op = "8XYE" -> Shl(m, x, y)
          [] op = "9XY0" -> SneRegister(m, x, y)
          [] op = "ANNN" -> LdI(m, nnn)
          [] op = "BNNN" -> JpV0(m, nnn)
          [] op = "CXNN" -> Rnd(m, x, b1, rnd)
          [] op = "DXYN" -> Drw(m, x, y, b1 % 16)
          [] op = "EX9E" -> Skp(m, x)
          [] op = "EXA1" -> Sknp(m, x)
          [] op = "FX07" -> LdDelayTimer(m, x)
          [] op = "FX0A" -> LdKeyboard(m, x)
          [] op = "FX15" -> LdSetDelayTimer(m, x)
          [] op = "FX18" -> LdSetSoundTimer(m, x)
          [] op = "FX1E" -> AddI(m, x)
          [] op = "FX29" -> LdFont(m, x)
          [] op = "FX33" -> LdBcd(m, x)
          [] op = "FX55" -> LdSetMemory(m, x)
          [] op = "FX65" -> LdMemory(m, x)
          [] OTHER -> Fail(m, BadCodeErr)

\* mutant: the loop does not stop at the first key it finds
RECURSIVE KeyLoop_RunsToLastMask(_, _, _)
KeyLoop_RunsToLastMask(m, changed, mask) ==
    LET m1 == [m EXCEPT !.V[m.wii.register] = KeyNumbers(BitAnd(changed, mask))]
    IN  IF mask = 32768 THEN m1
        ELSE KeyLoop_RunsToLastMask(m1, changed, mask * 2)

\* the loop that picks the first pressed key of a resolved wait
RECURSIVE KeyLoop(_, _, _)
KeyLoop(m, changed, mask) ==
    LET m1 == [m EXCEPT !.V[m.wii.register] = KeyNumbers(BitAnd(changed, mask))]
    IN  IF m1.V[m.wii.register] # 0 THEN m1
        ELSE IF mask = 32768 THEN m1
        ELSE KeyLoop(m1, changed, mask * 2)

\* mutant: the loop snaps lastTimerUpdate to now when it is done
RECURSIVE Drain_SnapsToNow(_, _, _)
Drain_SnapsToNow(m, now, beeps) ==
    IF now - m.lastTimerUpdate >= m.TimerInterval
    THEN Drain_SnapsToNow([m EXCEPT !.DT = IF @ > 0 THEN @ - 1 ELSE @,
                                    !.ST = IF @ > 0 THEN @ - 1 ELSE @,
                                    !.lastTimerUpdate = @ + m.TimerInterval],
                          now, beeps + (IF m.ST > 0 THEN 1 ELSE 0))
    ELSE [m |-> [m EXCEPT !.lastTimerUpdate = now], beep |-> beeps]

\* the timer loop at the end of Tick; beeps counts the calls of Beep
RECURSIVE Drain(_, _, _)
Drain(m, now, beeps) ==
    IF now - m.lastTimerUpdate >= m.TimerInterval
    THEN Drain([m EXCEPT !.DT = IF @ > 0 THEN @ - 1 ELSE @,
                         !.ST = IF @ > 0 THEN @ - 1 ELSE @,
                         !.lastTimerUpdate = @ + m.TimerInterval],
               now, beeps + (IF m.ST > 0 THEN 1 ELSE 0))
    ELSE [m |-> m, beep |-> beeps]

\* c.Memory[c.PC : c.PC+2] is a valid slice expression (uint16 arithmetic)
FetchInBounds(m) == m.PC <= U16(m.PC + 2) /\ U16(m.PC + 2) <= MemLen(m)

\* Tick up to its timer loop: the machine, the error, the word it fetched
\* (-1 when it fetched none), the driver calls it made, and whether it goes
\* on to the timer loop
Cycle(m, be, now, rnd) ==
    LET changed == BitAnd(m.Keyboard, m.wii.zeroBits)
        quiet(mm, e) == [m |-> mm, err |-> e, opcode |-> -1,
                         cls |-> 0, upd |-> 0, loop |-> FALSE]
    IN  IF m.wii.waiting /\ changed = 0 THEN quiet(m, NoErr)
        ELSE
        LET m0 == IF m.wii.waiting
                  THEN [KeyLoop(m, changed, 1) EXCEPT !.wii = NoWait]
                  ELSE m
        IN  IF ~FetchInBounds(m0) THEN quiet(m0, Panic)
            ELSE
            LET b0 == m0.Memory[m0.PC]
                b1 == m0.Memory[m0.PC + 1]
                r  == Exec([m0 EXCEPT !.PC = U16(@ + 2)], be, m0.PC, b0, b1, rnd)
                started == IF r.m.lastTimerUpdate = ZeroTime
                           THEN [r.m EXCEPT !.lastTimerUpdate = now] ELSE r.m
            IN  IF r.err # NoErr
                THEN [m |-> r.m, err |-> r.err, opcode |-> b0 * 256 + b1,
                      cls |-> r.cls, upd |-> r.upd, loop |-> FALSE]
                ELSE [m |-> started, err |-> NoErr, opcode |-> b0 * 256 + b1,
                      cls |-> r.cls, upd |-> r.upd, loop |-> TRUE]

\* what one call of Tick gives when its timer loop ends: the machine, the
\* error, the word it fetched and the driver calls it made
Tick(m, be, now, rnd) ==
    LET return(h) ==
            LET d == Drain(h.m, now, 0)
            IN  [m |-> IF h.loop THEN d.m ELSE h.m,
                 err |-> h.err, opcode |-> h.opcode, cls |-> h.cls,
                 upd |-> h.upd, beep |-> IF h.loop THEN d.beep ELSE 0]
    IN  return(Cycle(m, be, now, rnd))

-----------------------------------------------------------------------------
(* The disassembler.                                                       *)

\* the Instruction type DisassembleSimple wraps the word b0 b1 in
InstructionType(b0, b1) ==
    CASE b0 \div 16 = 0 -> "Sys"
      [] b0 \div 16 = 1 -> "Jp"
      [] b0 \div 16 = 2 -> "Call"
      [] b0 \div 16 = 3 -> "Se"
      [] b0 \div 16 = 4 -> "Sne"
      [] b0 \div 16 = 5 -> "SeRegister"
      [] b0 \div 16 = 6 -> "Ld"
      [] b0 \div 16 = 7 -> "Add"
      [] b0 \div 16 = 8 ->
            CASE b1 % 16 = 0 -> "LdRegister"
              [] b1 % 16 = 1 -> "Or"
              [] b1 % 16 = 2 -> "And"
              [] b1 % 16 = 3 -> "Xor"
              [] b1 % 16 = 4 -> "AddRegister"
              [] b1 % 16 = 5 -> "SubRegister"
              [] b1 % 16 = 6 -> "Shr"
              [] b1 % 16 = 7 -> "Subn"
              [] b1 % 16 = 14 -> "Shl"
              [] OTHER -> "RawData"
      [] b0 \div 16 = 9 -> "Sne"
      [] b0 \div 16 = 10 -> "LdI"
      [] b0 \div 16 = 11 -> "JpV0"
      [] b0 \div 16 = 12 -> "Rnd"
      [] b0 \div 16 = 13 -> "Drw"
      [] b0 \div 16 = 14 ->
            CASE b1 = \h9E -> "Skp"
              [] b1 = \hA1 -> "Sknp"
              [] OTHER -> "RawData"
      [] b0 \div 16 = 15 ->
            CASE b1 = \h07 -> "LdDelayTimer"
              [] b1 = \h0A -> "LdKeyboard"
              [] b1 = \h15 -> "LdSetDelayTimer"
              [] b1 = \h18 -> "LdSetSoundTimer"
              [] b1 = \h1E -> "AddI"
              [] b1 = \h29 -> "LdFont"
              [] b1 = \h33 -> "LdBcd"
              [] b1 = \h55 -> "LdSetMemory"
              [] b1 = \h65 -> "LdMemory"
              [] OTHER -> "RawData"

\* the opcode pattern that opens Description() of each Instruction type
Description ==
    [RawData |-> "Unknown / Raw Data", Sys |-> "0NNN", Jp |-> "1NNN",
     Call |-> "2NNN", Se |-> "3XNN", Sne |-> "4XNN", SeRegister |-> "5XY0",
     Ld |-> "6XNN", Add |-> "7XNN", LdRegister |-> "8XY0", Or |-> "8XY1",
     And |-> "8XY2", Xor |-> "8XY3", AddRegister |-> "8XY4",
     SubRegister |-> "8XY5", Shr |-> "8XY6", Subn |-> "8XY7", Shl |-> "8XYE",
     SneRegister |-> "9XY0", LdI |-> "ANNN", JpV0 |-> "BNNN", Rnd |-> "CXNN",
     Drw |-> "DXYN", Skp |-> "EX9E", Sknp |-> "EXA1", LdDelayTimer |-> "FX07",
     LdKeyboard |-> "FX0A", LdSetDelayTimer |-> "FX15",
     LdSetSoundTimer |-> "FX18", AddI |-> "FX1E", LdFont |-> "FX29",
     LdBcd |-> "FX33", LdSetMemory |-> "FX55", LdMemory |-> "FX65"]

\* the format string of each type's init()
Format ==
    [RawData |-> "DB % 02X", Sys |-> "SYS %03X", Jp |-> "JP %03X",
     Call |-> "CALL %03X", Se |-> "SE V%1X,%02X", Sne |-> "SNE V%1X,%02X",
     SeRegister |-> "SE V%1X,V%1X", Ld |-> "LD V%1X,%02X",
     Add |-> "ADD V%1X,%02X", LdRegister |-> "LD V%1X,V%1X",
     Or |-> "OR V%1X,V%1X", And |-> "AND V%1X,V%1X", Xor |-> "XOR V%1X,V%1X",
     AddRegister |-> "ADD V%1X,V%1X", SubRegister |-> "SUB V%1X,V%1X",
     Shr |-> "SHR V%1X,V%1X", Subn |-> "SUBN V%1X,V%1X",
     Shl |-> "SHL V%1X,V%1X", SneRegister |-> "SNE V%1X,V%1X",
     LdI |-> "LD I,%03X", JpV0 |-> "JP V0,%03X", Rnd |-> "RND V%1X,%02X",
     Drw |-> "DRW V%1X,V%1X,%1X", Skp |-> "SKP V%1X", Sknp |-> "SKNP V%1X",
     LdDelayTimer |-> "LD V%1X, DT", LdKeyboard |-> "LD V%1X, K",
     LdSetDelayTimer |-> "LD DT,V%1X", LdSetSoundTimer |-> "LD ST,V%1X",
     AddI |-> "ADD I,V%1X", LdFont |-> "LD I,CHAR V%1X",
     LdBcd |-> "LD [I],BCD V%1X", LdSetMemory |-> "LD [I],V%1X",
     LdMemory |-> "LD V%1X,[I]"]

\* the values each type's init() formats
Operands(type, b0, b1) ==
    CASE type = "Sys" -> <<b0 * 256 + b1>>
      [] type \in {"Jp", "Call", "LdI", "JpV0"} -> <<Nnn(b0, b1)>>
      [] type \in {"Se", "Sne", "Ld", "Add", "Rnd"} -> <<RegX(b0), b1>>
      [] type = "Drw" -> <<RegX(b0), RegY(b1), b1 % 16>>
      [] type \in {"SeRegister", "LdRegister", "Or", "And", "Xor", "AddRegister",
                   "SubRegister", "Shr", "Subn", "Shl", "SneRegister"} ->
            <<RegX(b0), RegY(b1)>>
      [] OTHER -> <<RegX(b0)>>

\* the text init() leaves in the record's s, as the format, its operands and
\* the note Sys appends.  RawData.init has a value receiver: it formats into a
\* copy, and the record's s stays empty.
InitText(type, b0, b1) ==
    IF type = "RawData" THEN <<>>
    ELSE <<Format[type], Operands(type, b0, b1),
           IF type = "Sys" /\ Nnn(b0, b1) = \h0E0 THEN " (CLS)"
           ELSE IF type = "Sys" /\ Nnn(b0, b1) = \h0EE THEN " (RET)"
           ELSE "">>

\* one record of the result
Instruction(b0, b1) ==
    [type |-> InstructionType(b0, b1), b |-> <<b0, b1>>,
     s |-> InitText(InstructionType(b0, b1), b0, b1)]

\* mutant: the two bytes are put together low byte first
Opcode_LowByteFirst(in) ==
    IF Len(in.b) = 2 THEN in.b[2] * 256 + in.b[1] ELSE in.b[1]

\* Opcode() and Size() of a record
Opcode(in) ==
    IF Len(in.b) = 2 THEN in.b[1] * 256 + in.b[2] ELSE in.b[1]

Size(in) == Len(in.b)

UnsupportedAlignment == "Odd-aligned opcodes are not supported"

\* mutant: the words before an odd last byte are returned with the error
DisassembleSimple_KeepsLeadingWords(b) ==
    [res |-> [k \in 1..(Len(b) \div 2) |-> Instruction(b[2 * k - 1], b[2 * k])],
     err |-> IF Len(b) % 2 # 0 THEN UnsupportedAlignment ELSE NoErr]

DisassembleSimple(b) ==
    IF Len(b) % 2 # 0 THEN [res |-> <<>>, err |-> UnsupportedAlignment]
    ELSE [res |-> [k \in 1..(Len(b) \div 2) |->
                      Instruction(b[2 * k - 1], b[2 * k])],
          err |-> NoErr]

-----------------------------------------------------------------------------
(* The host: New, then Load (or LoadRaw), then the Tick loop, which ends at *)
(* the first error (Run, and log.Fatal in the emulator's Draw); key events *)
(* arrive between cycles; the program is disassembled after the run.       *)

\* the record kept of the last call
Called(op, opcode, err, cls, upd, beep) ==
    [op |-> op, opcode |-> opcode, err |-> err,
     cls |-> cls, upd |-> upd, beep |-> beep]

\* the state after New(driver, s) on a build of byte order be, with the
\* program file program on disk
InitWith(driver, s, be, program) ==
    /\ c = New(driver, s)
    /\ bigEndian = be
    /\ settings = s
    /\ file = program
    /\ phase = "new"
    /\ clock = 1
    /\ ticks = 0
    /\ last = Called("New", -1, NoErr, 0, 0, 0)
    /\ disassembly = [res |-> <<>>, err |-> NoErr]

\* ha.Load(file)
HostLoad ==
    /\ phase = "new"
    /\ LET r == Load(c, file)
       IN  /\ c' = r.m
           /\ phase' = IF r.err = NoErr THEN "run" ELSE "failed"
           /\ last' = Called("Load", -1, r.err, 0, 0, 0)
    /\ UNCHANGED <<bigEndian, settings, file, clock, ticks, disassembly>>

\* ha.LoadRaw(program)
HostLoadRaw ==
    /\ phase = "new"
    /\ LET r == LoadRaw(c, file)
       IN  /\ c' = r.m
           /\ phase' = IF r.err = NoErr THEN "run" ELSE "failed"
           /\ last' = Called("LoadRaw", -1, r.err, 0, 0, 0)
    /\ UNCHANGED <<bigEndian, settings, file, clock, ticks, disassembly>>

\* the bytes uint8(rand.Uint32()) may give
RandBytes == {0, \h5A, \hFF}

\* the word the next Tick fetches when it fetches one
NextWord(m) ==
    IF FetchInBounds(m) THEN m.Memory[m.PC] * 256 + m.Memory[m.PC + 1] ELSE -1

\* one call of Tick by the host's loop, at most maxTicks of them
HostTick(maxTicks) ==
    /\ phase = "run"
    /\ ticks < maxTicks
    /\ \E rnd \in (IF NextWord(c) \div 4096 = 12 THEN RandBytes ELSE {0}) :
         LET r == Tick(c, bigEndian, clock, rnd)
         IN  /\ c' = r.m
             /\ phase' = IF r.err = Panic THEN "crashed"
                         ELSE IF r.err # NoErr THEN "failed" ELSE "run"
             /\ last' = Called("Tick", r.opcode, r.err, r.cls, r.upd, r.beep)
    /\ ticks' = ticks + 1
    /\ UNCHANGED <<bigEndian, settings, file, clock, disassembly>>

\* one time unit passes, up to maxClock
Advance(maxClock) ==
    /\ phase = "run"
    /\ clock < maxClock
    /\ clock' = clock + 1
    /\ UNCHANGED <<c, bigEndian, settings, file, phase, ticks, last, disassembly>>

\* the host lets d time units pass at once, not beyond maxClock
Sleep(d, maxClock) ==
    /\ phase = "run"
    /\ clock + d <= maxClock
    /\ clock' = clock + d
    /\ UNCHANGED <<c, bigEndian, settings, file, phase, ticks, last, disassembly>>

\* inputHandler.Tick: a key-down event of key k
KeyDown(k) ==
    /\ phase = "run"
    /\ c.driver = "termloop"
    /\ BitAnd(c.Keyboard, KeyFlags(k)) = 0
    /\ c' = [c EXCEPT !.Keyboard = BitOr(@, KeyFlags(k))]
    /\ UNCHANGED <<bigEndian, settings, file, phase, clock, ticks, last, disassembly>>

\* inputHandler.Draw: key k is released
KeyUp(k) ==
    /\ phase = "run"
    /\ c.driver = "termloop"
    /\ BitAnd(c.Keyboard, KeyFlags(k)) # 0
    /\ c' = [c EXCEPT !.Keyboard = BitAnd(@, Not16(KeyFlags(k)))]
    /\ UNCHANGED <<bigEndian, settings, file, phase, clock, ticks, last, disassembly>>

\* ha.Memory[0x200 : 0x200+progSize]
Loaded(m, progSize) == [k \in 1..progSize |-> m.Memory[ProgramStart + k - 1]]

\* hachi.DisassembleSimple(ha.Memory[0x200 : 0x200+progSize]) after the run
Disassemble ==
    /\ phase = "run"
    /\ disassembly' = DisassembleSimple(Loaded(c, Len(file)))
    /\ phase' = "done"
    /\ UNCHANGED <<c, bigEndian, settings, file, clock, ticks, last>>

-----------------------------------------------------------------------------
(* Programs.                                                               *)

\* the two bytes of a word, big-endian
Word(w) == <<w \div 256, w % 256>>

RECURSIVE Program(_)
Program(ws) == IF ws = <<>> THEN <<>> ELSE Word(Head(ws)) \o Program(Tail(ws))

\* settings of a machine with buffers of its own and a small memory
Small(stackSize, legacy) ==
    [MemorySize |-> \h240, StackSize |-> stackSize, Width |-> 16, Height |-> 16,
     Realistic |-> FALSE, LegacyMode |-> legacy]

\* the default settings with another stack size and mode
Realistic(stackSize, legacy) ==
    [DefaultSettings EXCEPT !.StackSize = stackSize, !.LegacyMode = legacy]

-----------------------------------------------------------------------------
(* The host: New, Load or LoadRaw, the loop of Tick with the driver's key  *)
(* events, and the disassembly of the loaded program.                      *)

MaxTicks == 4

MaxClock == 3

Keys == {0, 1, 15}

Files ==
    { Program(<< \hF00A, \hE09E, \h1200 >>),
      Program(<< \hF10A, \h1200 >>),
      Program(<< \h6003, \hF015, \hF10A >>),
      Program(<< \hF10A, \hE000 >>),
      Program(<< \hF00A, \h7001, \h1204 >>),
      Program(<< \hF00A, \hF10A, \h1204 >>),
      Program(<< \h6A02, \hFA15, \hFA18, \hF007 >>),
      Program(<< \h00E0, \hA000, \hD015, \h1206 >>),
      Program(<< \h6003, \h3003, \h0000, \h4003, \h5010 >>),
      Program(<< \h6003, \h3004, \h4004, \h0000, \h9010 >>),
      Program(<< \h5010, \h0000, \h9010, \hE0A1 >>),
      Program(<< \h2204, \h0000, \hAEA0, \hF033 >>),
      Program(<< \h6010, \hE09E, \h1200 >>) }
    \cup { [k \in 1..n |-> IF k = 1 THEN \h12 ELSE k - 2] : n \in {0, 1, 64, 65} }

Init ==
    \E driver \in Drivers, s \in {Small(3, FALSE), DefaultSettings},
       program \in Files :
        /\ (s.Realistic => driver = "null")
        /\ InitWith(driver, s, FALSE, program)

Next ==
    \/ HostLoad
    \/ HostLoadRaw
    \/ HostTick(MaxTicks)
    \/ Advance(MaxClock)
    \/ \E k \in Keys : KeyDown(k)
    \/ \E k \in Keys : KeyUp(k)
    \/ Disassemble

Spec == Init /\ [][Next]_vars

-----------------------------------------------------------------------------
(* Steps and calls the properties speak of.                                *)

\* this step is a call of Tick with no key wait pending that fetches a word
\* of the pattern op
Executes(op) ==
    /\ phase = "run"
    /\ ticks' = ticks + 1
    /\ ~c.wii.waiting
    /\ last'.opcode >= 0
    /\ Decode(last'.opcode \div 256, last'.opcode % 256) = op

\* the X and Y of the word the step fetched
FetchedX == RegX(last'.opcode \div 256)

FetchedY == RegY(last'.opcode % 256)

\* the word the last call of Tick fetched has the pattern op
Executed(op) ==
    /\ last.op = "Tick"
    /\ last.opcode >= 0
    /\ Decode(last.opcode \div 256, last.opcode % 256) = op

-----------------------------------------------------------------------------
(* Decoding: one-word programs, run and then disassembled.                 *)

DecodeTicks == 1

DecodeClock == 2

DecodeFiles ==
    { <<n * 16 + x, b1>> : n \in 0..15, x \in {0, 1}, b1 \in Byte }

InitDecode ==
    \E program \in DecodeFiles : InitWith("null", Small(2, FALSE), FALSE, program)

NextDecode ==
    HostLoad \/ HostTick(DecodeTicks) \/ Advance(DecodeClock) \/ Disassemble

SpecDecode == InitDecode /\ [][NextDecode]_vars

\* the operation a disassembled record names, as an opcode pattern
Names(in) ==
    IF in.type = "RawData" THEN "invalid"
    ELSE IF in.type = "Sys" /\ in.s[3] = " (CLS)" THEN "00E0"
    ELSE IF in.type = "Sys" /\ in.s[3] = " (RET)" THEN "00EE"
    ELSE Description[in.type]

\* C1: for every word, the operation Tick executes is the operation the
\* disassembler's record names, and the words Tick rejects as invalid are
\* exactly the words the disassembler leaves as raw data
C1_DispatchAgrees ==
    /\ \A k \in DOMAIN disassembly.res :
          Names(disassembly.res[k]) =
              Decode(disassembly.res[k].b[1], disassembly.res[k].b[2])
    /\ (last.op = "Tick" /\ last.opcode >= 0) =>
          ((last.err = BadCodeErr) <=>
           (InstructionType(last.opcode \div 256, last.opcode % 256) = "RawData"))

-----------------------------------------------------------------------------
(* Control flow: calls, returns and jumps.                                 *)

FlowTicks == 14

FlowClock == 2

FlowFiles ==
    { Program(<< \h2200 >>),
      Program(<< \h00EE >>),
      Program(<< \h2204, \h0000, \h00EE >>),
      Program(<< \h2202, \h2204, \h2206, \h00EE >>),
      Program(<< \h2206, \h1202, \h0000, \h220A, \h00EE, \h220E, \h00EE,
                 \h00EE >>) }
    \cup { Program(<< \h6000 + v, \hB000 + nnn >>) :
             v \in {0, 2, 16, 255}, nnn \in {\h200, \h204, \h20A, \hFFF} }

FlowSettings ==
    { Small(12, FALSE), Small(3, FALSE), DefaultSettings, Realistic(4, FALSE) }

InitFlow ==
    \E s \in FlowSettings, be \in BOOLEAN, program \in FlowFiles :
        /\ (be => s.Realistic)
        /\ InitWith("null", s, be, program)

NextFlow == HostLoad \/ HostTick(FlowTicks) \/ Advance(FlowClock)

SpecFlow == InitFlow /\ [][NextFlow]_vars

\* C2: with StackSize = S, in both layouts, S nested CALLs from an empty
\* stack succeed and the next one fails with StackOverflow: a CALL fails
\* exactly when S return addresses are on the stack
C2_StackHoldsStackSize ==
    /\ c.SP <= settings.StackSize - 1
    /\ (Executed("2NNN") /\ last.err # NoErr) =>
          /\ last.err = StackOverflowErr
          /\ c.SP = settings.StackSize - 1

\* C3: CALL on a full stack and RET on an empty stack return StackOverflow
\* and leave SP, every stack slot and the rest of the machine as they were,
\* with PC the fetch address + 2
C3_OverflowLeavesStack ==
    [][((Executes("2NNN") /\ c.SP >= StackLen(c) - 1)
        \/ (Executes("00EE") /\ c.SP = -1)) =>
          /\ last'.err = StackOverflowErr
          /\ c'.SP = c.SP
          /\ \A i \in 0..(StackLen(c) - 1) :
                StackGet(c', bigEndian, i) = StackGet(c, bigEndian, i)
          /\ c'.PC = (c.PC + 2) % 65536
          /\ c' = [c EXCEPT !.PC = c'.PC]]_vars

\* the 13th nested CALL on a stack of 12 slots failed with all 12 in use
C3_Witness ==
    /\ ~settings.Realistic
    /\ settings.StackSize = 12
    /\ Executed("2NNN")
    /\ last.err = StackOverflowErr
    /\ c.SP = 11
    /\ \A i \in 0..11 : StackGet(c, bigEndian, i) = \h202

\* C4: after BNNN the program counter is (NNN + V0) mod 2^16
C4_JumpTarget ==
    (Executed("BNNN") /\ last.err = NoErr) =>
        c.PC = (Nnn(last.opcode \div 256, last.opcode % 256) + c.V[0]) % 65536

-----------------------------------------------------------------------------
(* Arithmetic: LD VX,a; LD VY,b; then one of 8XY4, 8XY5, 8XY6, 8XY7, 8XYE. *)

AluTicks == 4

AluClock == 2

AluRegs == {0, 1, 15}

AluBytes == {0, 1, 2, 5, 10, 128, 255}

AluOps == {4, 5, 6, 7, 14}

AluFiles ==
    { Program(<< \h6000 + x * 256 + a, \h6000 + y * 256 + b,
                 \h8000 + x * 256 + y * 16 + k >>) :
        x \in AluRegs, y \in AluRegs, a \in AluBytes, b \in AluBytes, k \in AluOps }

InitAlu ==
    \E legacy \in BOOLEAN, program \in AluFiles :
        InitWith("null", Small(2, legacy), FALSE, program)

NextAlu == HostLoad \/ HostTick(AluTicks) \/ Advance(AluClock)

SpecAlu == InitAlu /\ [][NextAlu]_vars

\* C5: ADD VX,VY leaves VF = 1 iff the sum of the two old operands exceeds
\* 255, else 0, and (X not 0xF) VX = the low 8 bits of the sum
C5_AddCarry ==
    [][Executes("8XY4") =>
          LET sum == c.V[FetchedX] + c.V[FetchedY]
          IN  /\ last'.err = NoErr
              /\ c'.V[15] = (IF sum > 255 THEN 1 ELSE 0)
              /\ (FetchedX # 15 => c'.V[FetchedX] = sum % 256)]_vars

\* VX = 0xFF, VY = 0x02 was added: VX = 0x01, VF = 1
C5_Witness ==
    /\ file = Program(<< \h60FF, \h6102, \h8014 >>)
    /\ Executed("8XY4")
    /\ c.V[0] = 1
    /\ c.V[15] = 1

\* C6: SUB VX,VY with X not 0xF and any Y (Y = 0xF included) leaves
\* VX = (old VX - old VY) mod 256 and VF = 1 iff old VX >= old VY
C6_SubBorrow ==
    [][(Executes("8XY5") /\ FetchedX # 15) =>
          /\ c'.V[FetchedX] = (256 + c.V[FetchedX] - c.V[FetchedY]) % 256
          /\ c'.V[15] = (IF c.V[FetchedX] >= c.V[FetchedY] THEN 1 ELSE 0)]_vars

\* C7: SUBN VX,VY with X and Y not 0xF leaves VX = (old VY - old VX) mod 256
\* and VF = 0 iff old VX > old VY, so VF = 1 for equal operands
C7_SubnBorrow ==
    [][(Executes("8XY7") /\ FetchedX # 15 /\ FetchedY # 15) =>
          /\ last'.err = NoErr
          /\ c'.V[FetchedX] = (256 + c.V[FetchedY] - c.V[FetchedX]) % 256
          /\ c'.V[15] = (IF c.V[FetchedX] > c.V[FetchedY] THEN 0 ELSE 1)]_vars

\* SUBN ran on equal operands 5 and 5: VX = 0, VF = 1
C7_Witness ==
    /\ file = Program(<< \h6005, \h6105, \h8017 >>)
    /\ Executed("8XY7")
    /\ c.V[0] = 0
    /\ c.V[15] = 1

\* C8: SHL with X not 0xF leaves in VF the shifted-out bit as 0 or 1 (the
\* most significant bit of VX, of VY in legacy mode) and in VX the source
\* shifted left by one modulo 256
C8_ShlFlag ==
    [][(Executes("8XYE") /\ FetchedX # 15) =>
          LET src == IF settings.LegacyMode THEN c.V[FetchedY] ELSE c.V[FetchedX]
          IN  /\ c'.V[15] = (IF src >= 128 THEN 1 ELSE 0)
              /\ c'.V[FetchedX] = (src * 2) % 256]_vars

\* C9: SHR with X and Y not 0xF.  LegacyMode = false: VX = old VX >> 1,
\* VF = bit 0 of old VX, VY untouched.  LegacyMode = true: VX = old VY >> 1,
\* VF = bit 0 of old VY.  The mode is the one given to New, in every step.
C9_ShrModes ==
    [][/\ c'.legacy = settings.LegacyMode
       /\ (Executes("8XY6") /\ FetchedX # 15 /\ FetchedY # 15) =>
             /\ last'.err = NoErr
             /\ IF settings.LegacyMode
                THEN /\ c'.V[FetchedX] = c.V[FetchedY] \div 2
                     /\ c'.V[15] = c.V[FetchedY] % 2
                ELSE /\ c'.V[FetchedX] = c.V[FetchedX] \div 2
                     /\ c'.V[15] = c.V[FetchedX] % 2
                     /\ (FetchedY # FetchedX => c'.V[FetchedY] = c.V[FetchedY])]_vars

\* a legacy machine ran SHR V0,V1 with V0 = 2, V1 = 5: V0 = 2, VF = 1
C9_Witness ==
    /\ settings.LegacyMode
    /\ file = Program(<< \h6002, \h6105, \h8016 >>)
    /\ Executed("8XY6")
    /\ c.V[0] = 2
    /\ c.V[1] = 5
    /\ c.V[15] = 1

-----------------------------------------------------------------------------
(* Block transfers: LD V0,a; LD V1,b; LD I,addr; LD [I],VX; LD VY,[I].     *)

BlockTicks == 5

BlockClock == 2

BlockRegs == {0, 1, 2, 15}

BlockAddrs == {\h200, \h220, \h230}

BlockFiles ==
    { Program(<< \h6000 + a, \h6100 + (255 - a), \hA000 + addr,
                 \hF055 + x * 256, \hF065 + y * 256 >>) :
        a \in {\h11, \hAB}, addr \in BlockAddrs, x \in BlockRegs, y \in BlockRegs }
    \cup { Program(<< \hA000 + addr, \hF065 + y * 256 >>) :
             addr \in BlockAddrs, y \in BlockRegs }

BlockSettings ==
    { Small(3, FALSE), Small(3, TRUE), DefaultSettings, Realistic(12, TRUE) }

InitBlock ==
    \E s \in BlockSettings, program \in BlockFiles :
        InitWith("null", s, FALSE, program)

NextBlock == HostLoad \/ HostTick(BlockTicks) \/ Advance(BlockClock)

SpecBlock == InitBlock /\ [][NextBlock]_vars

\* C10: LD [I],VX copies V0..VX to memory I..I+X and writes no other byte;
\* LD VX,[I] copies memory I..I+X to V0..VX and writes no register above
\* VX; I is unchanged in modern mode and the old I + X + 1 in legacy mode
C10_BlockTransfer ==
    [][/\ (Executes("FX55") /\ BlockCheck(c, FetchedX) = NoErr) =>
            /\ last'.err = NoErr
            /\ \A k \in 0..FetchedX : c'.Memory[c.I + k] = c.V[k]
            /\ \A a \in DOMAIN c.Memory :
                  a \notin c.I..(c.I + FetchedX) => c'.Memory[a] = c.Memory[a]
            /\ c'.V = c.V
            /\ c'.I = IF settings.LegacyMode THEN c.I + FetchedX + 1 ELSE c.I
       /\ (Executes("FX65") /\ BlockCheck(c, FetchedX) = NoErr) =>
            /\ last'.err = NoErr
            /\ \A k \in 0..FetchedX : c'.V[k] = c.Memory[c.I + k]
            /\ \A r \in (FetchedX + 1)..15 : c'.V[r] = c.V[r]
            /\ c'.Memory = c.Memory
            /\ c'.I = IF settings.LegacyMode THEN c.I + FetchedX + 1 ELSE c.I
      ]_vars

\* V0..V2 were stored at 0x220 and then loaded back in legacy mode
C10_Witness ==
    /\ settings.LegacyMode
    /\ Executed("FX65")
    /\ last.err = NoErr
    /\ ticks = 5
    /\ file[7] = \hF2
    /\ c.Memory[\h220] = \hAB
    /\ c.Memory[\h221] = \h54
    /\ c.I = \h220 + 3 + RegX(file[9]) + 1

-----------------------------------------------------------------------------
(* Address ranges: programs that bring I below the program area, to the    *)
(* end of memory and to the end of the 16-bit address space, and then copy *)
(* a block or draw.                                                        *)

RangeTicks == 966

RangeClock == 2

\* the instructions tried on each I
RangeFinals ==
    { \hF055, \hF155, \hFF55, \hF065, \hF165, \hFF65, \hD000, \hD001, \hD00F }

\* VF = 1; I = 0xFFF; 240 times I += 0xFF, VF += 1; then I += d: I = 0xFF0F + d
Climb(d, final) ==
    Program(<< \h60FF, \h6F01, \hAFFF, \hF01E, \h7F01, \h3FF1, \h1206,
               \h6000 + d, \hF01E, final >>)

RangeFiles ==
    { Climb(d, final) : d \in {\hE1, \hE2, \hF0}, final \in RangeFinals }
    \cup { Program(<< \h6F01, \hA000 + addr, final >>) :
             addr \in {\h1FF, \h200, \h230, \h231, \h23F, \h240, \hFFF},
             final \in RangeFinals }

InitRange ==
    \E legacy \in BOOLEAN, program \in RangeFiles :
        /\ (legacy => Len(program) < 10)
        /\ InitWith("null", Small(3, legacy), FALSE, program)

NextRange == HostLoad \/ HostTick(RangeTicks) \/ Advance(RangeClock)

SpecRange == InitRange /\ [][NextRange]_vars

\* C11: LD [I],VX and LD VX,[I] fail with Overflow when I + X exceeds 0xFFFF,
\* otherwise with Access when I + X is no index of memory or I < 0x200, and
\* otherwise succeed; a failing one changes no register, no byte of memory
\* and not I
C11_BlockValidation ==
    [][(Executes("FX55") \/ Executes("FX65")) =>
          /\ last'.err =
                (IF c.I + FetchedX > 65535 THEN OverflowErr
                 ELSE IF c.I + FetchedX >= MemLen(c) \/ c.I < \h200
                 THEN AccessErr ELSE NoErr)
          /\ (last'.err # NoErr =>
                /\ c'.V = c.V
                /\ c'.Memory = c.Memory
                /\ c'.I = c.I)]_vars

\* LD [I],VF at I = 0xFFF1 failed with Overflow
C11_Witness ==
    /\ Executed("FX55")
    /\ last.opcode = \hFF55
    /\ last.err = OverflowErr
    /\ c.I = \hFFF1

\* C17: DRW VX,VY,N fails with Overflow when I + N exceeds 0xFFFF, otherwise
\* with Access when one of the N bytes from I is no byte of memory; a failing
\* DRW leaves the screen, VF and every other register as they were and does
\* not call UpdateScreen; a successful one calls UpdateScreen once and read
\* all of its N bytes inside memory
C17_DrawChecks ==
    [][Executes("DXYN") =>
          /\ (c.I + (last'.opcode % 16) > 65535 => last'.err = OverflowErr)
          /\ ((/\ c.I + (last'.opcode % 16) <= 65535
               /\ \E k \in 0..((last'.opcode % 16) - 1) : c.I + k \notin DOMAIN c.Memory)
                => last'.err = AccessErr)
          /\ (last'.err # NoErr =>
                /\ last'.err \in {OverflowErr, AccessErr}
                /\ c'.Screen = c.Screen
                /\ c'.Memory = c.Memory
                /\ c'.V = c.V
                /\ last'.upd = 0)
          /\ (last'.err = NoErr =>
                /\ last'.upd = 1
                /\ \A k \in 0..((last'.opcode % 16) - 1) : c.I + k \in DOMAIN c.Memory)]_vars

\* DRW V0,V0,15 at I = 0xFFF1 failed with Overflow and VF kept its 241
C17_Witness ==
    /\ Executed("DXYN")
    /\ last.opcode = \hD00F
    /\ last.err = OverflowErr
    /\ c.I = \hFFF1
    /\ c.V[15] = 241
    /\ last.upd = 0

-----------------------------------------------------------------------------
(* Decimal digits: LD VX,NN; LD I,addr; LD [I],BCD VX.                     *)

BcdTicks == 3

BcdClock == 2

BcdFiles ==
    { Program(<< \h6000 + x * 256 + nn, \hA000 + addr, \hF033 + x * 256 >>) :
        x \in {0, 3}, nn \in Byte,
        addr \in {\h1FF, \h200, \h220, \h23D, \h23E, \hFFD, \hFFE} }

InitBcd ==
    \E s \in {Small(3, FALSE), DefaultSettings}, program \in BcdFiles :
        /\ (s.Realistic => program[2] \in {0, 9, 99, 234, 255})
        /\ InitWith("null", s, FALSE, program)

NextBcd == HostLoad \/ HostTick(BcdTicks) \/ Advance(BcdClock)

SpecBcd == InitBcd /\ [][NextBcd]_vars

\* C12: LD [I],BCD VX with I >= 0x200 and I + 2 an index of memory stores
\* the hundreds, tens and ones digits of VX at I, I+1, I+2 and changes no
\* other byte and not I; otherwise it fails with Access and changes no byte
C12_BcdDigits ==
    [][Executes("FX33") =>
          IF c.I >= \h200 /\ c.I + 2 < MemLen(c)
          THEN /\ last'.err = NoErr
               /\ \A k \in 0..2 : c'.Memory[c.I + k] \in 0..9
               /\ 100 * c'.Memory[c.I] + 10 * c'.Memory[c.I + 1]
                      + c'.Memory[c.I + 2] = c.V[FetchedX]
               /\ \A a \in DOMAIN c.Memory :
                     a \notin c.I..(c.I + 2) => c'.Memory[a] = c.Memory[a]
               /\ c'.I = c.I
          ELSE /\ last'.err = AccessErr
               /\ c'.Memory = c.Memory]_vars

\* VX = 234 was stored at 0x220 as 2, 3, 4
C12_Witness ==
    /\ Executed("FX33")
    /\ last.err = NoErr
    /\ c.V[3] = 234
    /\ c.I = \h220
    /\ c.Memory[\h220] = 2
    /\ c.Memory[\h221] = 3
    /\ c.Memory[\h222] = 4

-----------------------------------------------------------------------------
(* Sprites: LD VX,a; LD VY,b; LD I,addr; DRW VX,VY,N and a second DRW, at  *)
(* the same place or three pixels to the right, on screens 8, 16 and 64    *)
(* pixels wide.                                                            *)

DrawTicks == 6

DrawClock == 2

\* settings of a small machine with a screen of w x h pixels
Sized(w, h) == [Small(3, FALSE) EXCEPT !.Width = w, !.Height = h]

DrawSettings == {Sized(8, 16), Sized(16, 16), Sized(16, 24), DefaultSettings}

\* sprites are the font (0x000), the program's own bytes (0x200) and the
\* byte a of its first word (0x201)
DrawFiles ==
    { Program(<< \h6000 + x * 256 + a, \h6100 + b, \hA000 + addr,
                 \hD010 + x * 256 + n >>
              \o (IF again THEN << >> ELSE << \h6000 + x * 256 + ((a + 3) % 256) >>)
              \o << \hD010 + x * 256 + n >>) :
        x \in {0, 15}, a \in {0, 4, 250}, b \in {0, 15, 255},
        addr \in {\h000, \h200, \h201}, n \in {0, 1, 5, 15}, again \in BOOLEAN }

InitDraw ==
    \E s \in DrawSettings, program \in DrawFiles :
        /\ (s.Realistic => program[1] = \h60 /\ program[8] % 16 = 5)
        /\ InitWith("null", s, FALSE, program)

NextDraw == HostLoad \/ HostTick(DrawTicks) \/ Advance(DrawClock)

SpecDraw == InitDraw /\ [][NextDraw]_vars

\* the pixel (px, py) of the screen of m: 1 set, 0 unset
Pixel(m, px, py) ==
    (ScreenGet(m, py * (m.Width \div 8) + (px \div 8)) \div Pow2(7 - (px % 8))) % 2

\* this step is a DRW that draws
Draws == Executes("DXYN") /\ last'.err = NoErr

\* C13: after a successful DRW, VF = 1 iff some pixel of the screen went
\* from set to unset during the draw, and VF = 0 otherwise, whatever VF was
C13_CollisionFlag ==
    [][Draws =>
          c'.V[15] =
             (IF \E px \in 0..(c.Width - 1), py \in 0..(c.Height - 1) :
                    Pixel(c, px, py) = 1 /\ Pixel(c', px, py) = 0
              THEN 1 ELSE 0)]_vars

\* a draw with VF = 250 before it that cleared no pixel left VF = 0, and a
\* later one that cleared pixels left VF = 1
C13_Witness ==
    /\ file[1] = \h6F
    /\ file[2] = 250
    /\ Executed("DXYN")
    /\ last.err = NoErr
    /\ ticks = 5
    /\ c.V[15] = 1
    /\ \E i \in 0..(ScreenLen(c) - 1) : ScreenGet(c, i) # 0

\* the program draws, and at once draws again with the same registers
DrawsTwice ==
    /\ Len(file) = 10
    /\ ticks = 5
    /\ Executed("DXYN")
    /\ last.err = NoErr

\* C14: a non-empty sprite drawn twice at the same coordinates (coordinate
\* registers other than VF) on a cleared screen leaves the screen cleared
\* again, and the second draw sets VF = 1
C14_DrawTwice ==
    (/\ DrawsTwice
     /\ RegX(file[7]) # 15
     /\ RegY(file[8]) # 15
     /\ \E r \in 0..((file[8] % 16) - 1) : c.Memory[c.I + r] # 0) =>
        /\ \A i \in 0..(ScreenLen(c) - 1) : ScreenGet(c, i) = 0
        /\ c.V[15] = 1

\* the one pixel of the sprite 0x04 drawn at x = 4 lies in the second byte
\* of its row; the second draw has cleared it
C14_Witness ==
    /\ DrawsTwice
    /\ file = Program(<< \h6004, \h610F, \hA201, \hD011, \hD011 >>)
    /\ c.Width = 16
    /\ c.V[15] = 1
    /\ \A i \in 0..(ScreenLen(c) - 1) : ScreenGet(c, i) = 0

\* the coordinates a DRW step starts at, and its number of rows
OriginX == c.V[FetchedX] % c.Width

OriginY == c.V[FetchedY] % c.Height

Rows == last'.opcode % 16

\* the sprite row a DRW step draws on the pixel row py, -1 when none
\* (Height > 15 >= N: a pixel row gets at most one sprite row)
SpriteRow(py) ==
    LET r == (py + c.Height - OriginY) % c.Height
    IN  IF r < Rows THEN r ELSE -1

\* memory outside the screen buffer is the same before and after the step
OutsideScreenUnchanged ==
    \A a \in DOMAIN c.Memory :
        (c.Screen.aliased /\ a \in c.Screen.base..(c.Screen.base + ScreenLen(c) - 1))
        \/ c'.Memory[a] = c.Memory[a]

\* C15: a sprite row drawn at an x of the last byte column with x mod 8 # 0 is
\* XORed, shifted right, into the rightmost byte of its pixel row, and the
\* bits shifted out are XORed into the leftmost byte of the same pixel row
\* (the same byte when the screen is 8 wide); no other byte of the screen
\* and nothing outside the screen changes
C15_HorizontalWrap ==
    [][(/\ Draws
        /\ OriginX \div 8 = (c.Width \div 8) - 1
        /\ OriginX % 8 # 0) =>
          LET bw == c.Width \div 8
              bo == OriginX % 8
              sprite(i) == c.Memory[c.I + SpriteRow(i \div bw)]
              right(i) == IF SpriteRow(i \div bw) >= 0 /\ i % bw = bw - 1
                          THEN sprite(i) \div Pow2(bo) ELSE 0
              left(i) == IF SpriteRow(i \div bw) >= 0 /\ i % bw = 0
                         THEN (sprite(i) * Pow2(8 - bo)) % 256 ELSE 0
          IN  /\ \A i \in 0..(ScreenLen(c) - 1) :
                    ScreenGet(c', i) =
                        BitXor(BitXor(ScreenGet(c, i), right(i)), left(i))
              /\ OutsideScreenUnchanged]_vars

\* the row 0xFA drawn at x = 10 of a screen 16 wide: 0x3E in the right byte
\* of row 15 and 0x80 in its left byte
C15_Witness ==
    /\ file = Program(<< \h60FA, \h610F, \hA201, \hD011, \hD011 >>)
    /\ c.Width = 16
    /\ ticks = 4
    /\ Executed("DXYN")
    /\ ScreenGet(c, 31) = \h3E
    /\ ScreenGet(c, 30) = \h80

\* the bit of the sprite a DRW step XORs into the pixel (px, py): bit 7 of
\* row r goes to the origin's column, pixel row (origin y + r) mod Height
SpriteBit(px, py) ==
    LET col == (px + c.Width - OriginX) % c.Width
    IN  IF SpriteRow(py) >= 0 /\ col < 8
        THEN (c.Memory[c.I + SpriteRow(py)] \div Pow2(7 - col)) % 2
        ELSE 0

\* C16: DRW starts at (VX mod Width, VY mod Height) for every value of VX and
\* VY, and draws sprite row r on the pixel row (origin y + r) mod Height, the
\* columns wrapping at Width: every pixel is XORed with its bit of the sprite,
\* and nothing outside the screen buffer changes
C16_OriginAndRows ==
    [][Draws =>
          /\ \A px \in 0..(c.Width - 1), py \in 0..(c.Height - 1) :
                Pixel(c', px, py) = (Pixel(c, px, py) + SpriteBit(px, py)) % 2
          /\ OutsideScreenUnchanged
          /\ ScreenLen(c') = (c.Width * c.Height) \div 8]_vars

\* the digit 0 drawn at (4, 255 mod 16 = 15) of a 16 x 16 screen: its first
\* row is on pixel row 15, the other four on rows 0..3
C16_Witness ==
    /\ file[1] = \h60 /\ file[2] = 4
    /\ file[4] = 255
    /\ file[5] = \hA0 /\ file[6] = 0
    /\ file[8] = \h15
    /\ c.Width = 16 /\ c.Height = 16
    /\ ticks = 4
    /\ Executed("DXYN")
    /\ ScreenGet(c, 30) = \h0F
    /\ ScreenGet(c, 0) = \h09
    /\ ScreenGet(c, 6) = \h0F
    /\ ScreenGet(c, 8) = 0

-----------------------------------------------------------------------------
(* Waiting for a key: LD VX,K and the calls of Tick that follow it.        *)

\* changed := c.Keyboard & c.wii.zeroBits, as the set of its keys
NewKeys ==
    { k \in 0..15 : BitAnd(BitAnd(c.Keyboard, c.wii.zeroBits), KeyFlags(k)) # 0 }

\* this step is a call of Tick that finds a wait pending and a new key down
Resolves ==
    /\ phase = "run"
    /\ ticks' = ticks + 1
    /\ c.wii.waiting
    /\ NewKeys # {}

\* the machine of this state with key k stored for the wait and the wait over
Resolved(k) == [c EXCEPT !.V[c.wii.register] = k, !.wii = NoWait]

\* C18: while a wait that began with no key down is pending, a call of Tick
\* with Keyboard = 0 fetches nothing and changes nothing of the machine; the
\* first call with a key down ends the wait with the number of a key that is
\* down in VX, and goes on from that machine
C18_KeyWaitBlocks ==
    [][(/\ phase = "run"
        /\ ticks' = ticks + 1
        /\ c.wii.waiting
        /\ c.wii.zeroBits = 65535) =>
          IF c.Keyboard = 0
          THEN /\ c' = c
               /\ last'.opcode = -1
               /\ last'.err = NoErr
               /\ phase' = "run"
          ELSE /\ \E k \in NewKeys :
                    c' = Tick(Resolved(k), bigEndian, clock, 0).m
               /\ (last'.opcode \div 4096 = 1 =>
                     /\ ~c'.wii.waiting
                     /\ c'.V[c.wii.register] \in NewKeys)]_vars

\* LD V0,K; ADD V0,1: the fourth call of Tick found key 15 down after two
\* calls that found none
C18_Witness ==
    /\ last.op = "Tick"
    /\ last.opcode = \h7001
    /\ ticks = 4
    /\ c.V[0] = 16
    /\ c.Keyboard = KeyFlags(15)
    /\ ~c.wii.waiting

\* C19: the key stored when a wait ends is the lowest of the new keys down
C19_LowestKey ==
    [][Resolves =>
          LET lowest == CHOOSE k \in NewKeys : \A j \in NewKeys : k <= j
          IN  c' = Tick(Resolved(lowest), bigEndian, clock, 0).m]_vars

\* C20: the call of Tick that ends a wait fetches no word and leaves PC
C20_ResolveOnly ==
    [][Resolves => (last'.opcode = -1 /\ c'.PC = c.PC)]_vars

-----------------------------------------------------------------------------
(* Timers.                                                                 *)

\* C21: a call of Tick that finds a wait pending and no new key down still
\* runs the timer loop: DT and ST go down once for every TimerInterval that
\* has passed since lastTimerUpdate and Beep is called once per step of ST
C21_BlockedDrains ==
    [][(/\ phase = "run"
        /\ ticks' = ticks + 1
        /\ c.wii.waiting
        /\ NewKeys = {}) =>
          LET d == Drain(c, clock, 0)
          IN  /\ c'.DT = d.m.DT
              /\ c'.ST = d.m.ST
              /\ last'.beep = d.beep]_vars

TimerTicks == 5

TimerClock == 5

TimerSpan == 126

\* LD V0,NN; LD DT,V0; LD ST,V0 and a loop, called at any of the first times
\* and at any of the times a second later
SpecTimer ==
    /\ \E program \in { Program(<< \h60C8, \hF015, \h1204 >>),
                        Program(<< \h6003, \hF015, \hF018, \h1206 >>) } :
            InitWith("null", Small(2, FALSE), FALSE, program)
    /\ [][\/ HostLoad
          \/ HostTick(TimerTicks)
          \/ Advance(TimerClock)
          \/ Sleep(Second, TimerSpan)]_vars

\* C22: a call of Tick at time now that runs an instruction other than
\* LD DT,VX and LD ST,VX, n whole intervals after lastTimerUpdate, leaves
\* DT = max(0, DT - n) and ST = max(0, ST - n), calls Beep once per step of
\* ST, and moves lastTimerUpdate by exactly n intervals, to within one
\* interval of now; the first call sets lastTimerUpdate to its own time
C22_TimerRate ==
    [][(/\ phase = "run"
        /\ ticks' = ticks + 1
        /\ last'.opcode >= 0
        /\ last'.err = NoErr
        /\ Decode(last'.opcode \div 256, last'.opcode % 256)
              \notin {"FX15", "FX18"}) =>
          LET n == IF c.lastTimerUpdate = ZeroTime THEN 0
                   ELSE (clock - c.lastTimerUpdate) \div c.TimerInterval
          IN  /\ c.TimerInterval > 0
              /\ c'.DT = (IF c.DT > n THEN c.DT - n ELSE 0)
              /\ c'.ST = (IF c.ST > n THEN c.ST - n ELSE 0)
              /\ last'.beep = Min(c.ST, n)
              /\ c'.lastTimerUpdate =
                    (IF c.lastTimerUpdate = ZeroTime THEN clock
                     ELSE c.lastTimerUpdate + n * c.TimerInterval)
              /\ clock - c'.lastTimerUpdate \in 0..(c.TimerInterval - 1)]_vars

\* DT = 200 was set at time 1 and the third call of Tick came one second
\* later: DT = 140
C22_Witness ==
    /\ last.op = "Tick"
    /\ ticks = 3
    /\ clock = 1 + Second
    /\ c.V[0] = 200
    /\ c.DT = 140
    /\ c.lastTimerUpdate = 1 + Second

-----------------------------------------------------------------------------
(* Errors.                                                                 *)

C24_FailureChangesOnlyPC ==
    [][(/\ phase = "run"
        /\ ticks' = ticks + 1
        /\ last'.err \notin {NoErr, Panic}) =>
          c' = [c EXCEPT !.PC = c'.PC]]_vars

-----------------------------------------------------------------------------
(* Loading.                                                                *)

\* C25: Load and LoadRaw of a program longer than len(Memory) - 0x200 fail
\* with OutOfMemory, which carries the length, and leave the machine as it
\* was; a program that fits, exactly too, has byte k at 0x200 + k, and the
\* bytes below 0x200 are unchanged
C25_LoadBounds ==
    [][(phase = "new" /\ phase' # "new") =>
          IF Len(file) > settings.MemorySize - \h200
          THEN /\ last'.err = OutOfMemoryErr
               /\ LoadRaw(c, file).size = Len(file)
               /\ Load(c, file).size = Len(file)
               /\ c' = c
          ELSE /\ last'.err = NoErr
               /\ \A k \in 1..Len(file) : c'.Memory[\h200 + k - 1] = file[k]
               /\ \A a \in 0..(\h200 - 1) : c'.Memory[a] = c.Memory[a]]_vars

\* LoadRaw put a program of 64 bytes in the last 64 bytes of a memory of
\* 0x240
C25_Witness ==
    /\ last.op = "LoadRaw"
    /\ last.err = NoErr
    /\ Len(file) = 64
    /\ settings.MemorySize = \h240
    /\ c.Memory[\h23F] = file[64]
    /\ c.Memory[0] = \hF0

-----------------------------------------------------------------------------
(* Disassembly of the loaded program.                                      *)

\* C26: DisassembleSimple of a buffer of even length L, 0 too, returns no
\* error and L/2 records in the order of the buffer; record k has the
\* big-endian value of bytes 2k and 2k+1 as its Opcode() and a Size() of 2,
\* and the sizes add up to L
C26_DisassembleRoundTrip ==
    [][(phase = "run" /\ phase' = "done" /\ Len(file) % 2 = 0) =>
          LET b   == Loaded(c, Len(file))
              res == disassembly'.res
              RECURSIVE Sizes(_)
              Sizes(n) == IF n = 0 THEN 0 ELSE Sizes(n - 1) + Size(res[n])
          IN  /\ disassembly'.err = NoErr
              /\ Len(res) = Len(b) \div 2
              /\ \A k \in 1..Len(res) :
                    /\ Opcode(res[k]) = b[2 * k - 1] * 256 + b[2 * k]
                    /\ Size(res[k]) = 2
              /\ Sizes(Len(res)) = Len(b)]_vars

\* a program of 64 bytes gave 32 records, the second one the word 0x0102
C26_Witness ==
    /\ phase = "done"
    /\ Len(file) = 64
    /\ disassembly.err = NoErr
    /\ Len(disassembly.res) = 32
    /\ Opcode(disassembly.res[2]) = \h0102

\* C27: DisassembleSimple of a buffer of odd length returns the alignment
\* error and no record
C27_OddLength ==
    [][(phase = "run" /\ phase' = "done" /\ Len(file) % 2 = 1) =>
          /\ disassembly'.err = UnsupportedAlignment
          /\ disassembly'.res = <<>>]_vars

\* a program of 65 bytes was refused
C27_Witness ==
    /\ phase = "done"
    /\ Len(file) = 65
    /\ disassembly.err = UnsupportedAlignment
    /\ disassembly.res = <<>>

\* C28: the record of a word no case of DisassembleSimple takes has the text
\* "DB" followed by its two bytes in hex, and the description of raw data
C28_RawDataText ==
    \A k \in DOMAIN disassembly.res :
        disassembly.res[k].type = "RawData" =>
            /\ disassembly.res[k].s = <<Format["RawData"], disassembly.res[k].b, "">>
            /\ Description[disassembly.res[k].type] = "Unknown / Raw Data"

-----------------------------------------------------------------------------
(* The program counter and the stack pointer.                              *)

\* C29: a call of Tick that runs the word fetched at address at without
\* error leaves PC = at + 2 (mod 2^16), but for jumps, calls and returns,
\* and for the six skips, which leave at + 4 exactly when their condition
\* holds; LD VX,K leaves at + 2 and a wait pending, and a call that finds
\* the wait pending and no new key leaves PC and the wait as they are
C29_ProgramCounter ==
    [][(phase = "run" /\ ticks' = ticks + 1) =>
          LET b0 == last'.opcode \div 256
              b1 == last'.opcode % 256
              op == Decode(b0, b1)
              vx == c'.V[RegX(b0)]
              vy == c'.V[RegY(b1)]
              down == vx <= 15 /\ BitAnd(c'.Keyboard, KeyFlags(vx)) # 0
              taken == CASE op = "3XNN" -> vx = b1
                         [] op = "4XNN" -> vx # b1
                         [] op = "5XY0" -> vx = vy
                         [] op = "9XY0" -> vx # vy
                         [] op = "EX9E" -> down
                         [] op = "EXA1" -> ~down
                         [] OTHER -> FALSE
          IN  /\ (last'.opcode >= 0 /\ last'.err = NoErr
                   /\ op \notin {"1NNN", "BNNN", "2NNN", "00EE"}) =>
                     /\ c'.PC = U16(c.PC + (IF taken THEN 4 ELSE 2))
                     /\ (op = "FX0A" => c'.wii.waiting)
              /\ (c.wii.waiting /\ NewKeys = {}) =>
                     /\ last'.opcode = -1
                     /\ c'.PC = c.PC
                     /\ c'.wii = c.wii]_vars

\* SNE V0,V1 at 0x208 with V0 = 3 and V1 = 0 skipped the word at 0x20A
C29_Witness ==
    /\ last.op = "Tick"
    /\ last.opcode = \h9010
    /\ last.err = NoErr
    /\ ticks = 4
    /\ c.V[0] = 3
    /\ c.V[1] = 0
    /\ c.PC = \h20C

\* C30: SP is always in -1..len(Stack)-1; it starts at -1, goes up by one
\* with each successful CALL, down by one with each successful RET and is
\* left alone by every other call and by Load, so that SP = -1 exactly when
\* no call is outstanding; Memory, Stack and Screen keep the lengths New
\* gave them
C30_StackPointer ==
    [][/\ c.SP \in -1..(StackLen(c) - 1)
       /\ c'.SP \in -1..(StackLen(c') - 1)
       /\ (phase = "new" => c.SP = -1)
       /\ c'.SP = (IF Executes("2NNN") /\ last'.err = NoErr THEN c.SP + 1
                   ELSE IF Executes("00EE") /\ last'.err = NoErr THEN c.SP - 1
                   ELSE c.SP)
       /\ DOMAIN c'.Memory = DOMAIN c.Memory
       /\ MemLen(c') = MemLen(c)
       /\ MemLen(c) = settings.MemorySize
       /\ StackLen(c') = StackLen(c)
       /\ ScreenLen(c') = ScreenLen(c)
       /\ ScreenLen(c) = (settings.Width * settings.Height) \div 8]_vars

\* CALL 0x204 and the RET at 0x204: back at 0x202 with no call outstanding
C30_Witness ==
    /\ Executed("00EE")
    /\ last.err = NoErr
    /\ ticks = 2
    /\ c.SP = -1
    /\ c.PC = \h202

\* C31: a successful CALL fetched at A puts A + 2 in the slot above the old
\* SP, leaves the slots below as they are and jumps to NNN; a successful RET
\* sets PC to the slot at SP, takes SP down by one and changes no slot: the
\* return addresses come back last in, first out
C31_CallRetLifo ==
    [][/\ (Executes("2NNN") /\ last'.err = NoErr) =>
            /\ c'.SP = c.SP + 1
            /\ StackGet(c', bigEndian, c'.SP) = U16(c.PC + 2)
            /\ \A i \in 0..c.SP :
                  StackGet(c', bigEndian, i) = StackGet(c, bigEndian, i)
            /\ c'.PC = Nnn(last'.opcode \div 256, last'.opcode % 256)
       /\ (Executes("00EE") /\ last'.err = NoErr) =>
            /\ c'.PC = StackGet(c, bigEndian, c.SP)
            /\ c'.SP = c.SP - 1
            /\ \A i \in 0..(StackLen(c) - 1) :
                  StackGet(c', bigEndian, i) = StackGet(c, bigEndian, i)]_vars

\* three nested CALLs at 0x200, 0x206, 0x20A and three RETs: back at 0x202
\* with SP = -1
C31_Witness ==
    /\ Executed("00EE")
    /\ last.err = NoErr
    /\ ticks = 6
    /\ c.SP = -1
    /\ c.PC = \h202
    /\ StackGet(c, bigEndian, 0) = \h202
    /\ StackGet(c, bigEndian, 1) = \h208
    /\ StackGet(c, bigEndian, 2) = \h20C

\* C32: LoadRaw of a program leaves the machine Load of the same bytes
\* leaves, with PC = 0x200
C32_LoadRawAsLoad ==
    [][(phase = "new" /\ phase' = "run") =>
          /\ c' = Load(c, file).m
          /\ c'.PC = ProgramStart]_vars

-----------------------------------------------------------------------------
(* The stack and the screen against the memory the program addresses.      *)

\* C33: in both layouts a successful call of Tick changes a stack slot in
\* use only when it runs CALL and a byte of the screen only when it runs DRW
\* or CLS, and CALL, DRW and CLS change no byte of Memory
C33_StackAndScreenApart ==
    [][(/\ phase = "run"
        /\ ticks' = ticks + 1
        /\ last'.opcode >= 0
        /\ last'.err = NoErr) =>
          LET op == Decode(last'.opcode \div 256, last'.opcode % 256)
          IN  /\ op # "2NNN" =>
                    \A i \in 0..c.SP :
                        StackGet(c', bigEndian, i) = StackGet(c, bigEndian, i)
              /\ op \notin {"DXYN", "00E0"} =>
                    \A i \in 0..(ScreenLen(c) - 1) :
                        ScreenGet(c', i) = ScreenGet(c, i)
              /\ op \in {"2NNN", "DXYN", "00E0"} =>
                    c'.Memory = c.Memory]_vars

-----------------------------------------------------------------------------
(* A wait for a key and the keys that were down when it began.             *)

\* C34: while a wait is pending, every press of a key (its bit of Keyboard
\* goes from 0 to 1 between two calls of Tick) leaves a state in which the
\* next call of Tick finds a new key, whether or not that key was down when
\* LD VX,K ran
C34_FreshPressResolves ==
    [][(/\ phase = "run"
        /\ c.wii.waiting
        /\ ticks' = ticks
        /\ BitAnd(c'.Keyboard, Not16(c.Keyboard)) # 0) =>
          NewKeys' # {}]_vars

-----------------------------------------------------------------------------
(* The fetch at the end of memory.                                         *)

\* C35: a call of Tick that comes to fetch when PC and PC + 1 are not both
\* indices of Memory returns an error and does not crash
C35_FetchInsideMemory ==
    [][(/\ phase = "run"
        /\ ticks' = ticks + 1
        /\ ~(c.wii.waiting /\ NewKeys = {})
        /\ ~FetchInBounds(c)) =>
          /\ last'.err \notin {NoErr, Panic}
          /\ phase' = "failed"]_vars

-----------------------------------------------------------------------------
(* SKP and SKNP for every value of VX.                                     *)

\* C36: a call of Tick that runs SKP VX or SKNP VX does not crash, whatever
\* VX holds; for VX in 0..15 it succeeds, SKP skips exactly when bit VX of
\* Keyboard is set, SKNP exactly when it is clear, and Keyboard is unchanged
C36_KeySkipsTotal ==
    [][(Executes("EX9E") \/ Executes("EXA1")) =>
          LET key  == c.V[FetchedX]
              down == BitAnd(c.Keyboard, KeyFlags(key)) # 0
              skip == IF Executes("EX9E") THEN down ELSE ~down
          IN  /\ last'.err # Panic
              /\ phase' # "crashed"
              /\ key <= 15 =>
                    /\ last'.err = NoErr
                    /\ c'.PC = U16(c.PC + (IF skip THEN 4 ELSE 2))
                    /\ c'.Keyboard = c.Keyboard]_vars

-----------------------------------------------------------------------------
(* New as a call: any driver name, any settings.                           *)

\* a nil pointer: the named result c before New assigns it, a nil settings
\* argument
Nil == [nil |-> TRUE]

\* an error of Chip8Settings.Validate
SettingsErr == "SettingsErr"

\* hachi.New(driver, s): the instance and the error it returns; err = Panic
\* when the call does not return
NewCall(driver, s) ==
    IF driver \notin Drivers
    THEN [m |-> Nil, err |-> Panic]    \* c.driver is read through the nil c
    ELSE
    LET ss == IF "nil" \in DOMAIN s THEN DefaultSettings ELSE s
    IN  IF ~Validate(ss) THEN [m |-> Nil, err |-> SettingsErr]
        ELSE IF ~NewInBounds(ss) THEN [m |-> Nil, err |-> Panic]
        ELSE IF ~ss.Realistic /\ ss.StackSize < 0 THEN [m |-> Nil, err |-> Panic]
        ELSE [m |-> New(driver, ss), err |-> NoErr]

\* the host calls hachi.New(driver, s)
HostNew(driver, s) ==
    /\ phase = "init"
    /\ LET r == NewCall(driver, s)
       IN  /\ c' = r.m
           /\ phase' = IF r.err = Panic THEN "crashed"
                       ELSE IF r.err # NoErr THEN "failed" ELSE "new"
           /\ last' = Called("New", -1, r.err, 0, 0, 0)
    /\ settings' = s
    /\ UNCHANGED <<bigEndian, file, clock, ticks, disassembly>>

\* driver names: the registered ones and one that is not
NewDrivers == Drivers \cup {"sdl"}

\* settings arguments: nil, the defaults, buffers of their own, the small
\* memory in realistic mode, a memory shorter than the font, a negative
\* stack size, and two that Validate refuses
NewSettings ==
    { Nil, DefaultSettings, Small(3, FALSE),
      [Small(3, FALSE) EXCEPT !.Realistic = TRUE],
      [Small(3, FALSE) EXCEPT !.MemorySize = 16],
      [Small(3, FALSE) EXCEPT !.StackSize = -1],
      [DefaultSettings EXCEPT !.Width = 12],
      [DefaultSettings EXCEPT !.StackSize = 13] }

NewTicks == 3

NewClock == 2

\* New with any of the arguments, then Load and calls of Tick
SpecNew ==
    /\ \E program \in { <<>>, Program(<< \h6003, \h7001, \h1202 >>) } :
            /\ c = Nil
            /\ bigEndian = FALSE
            /\ settings = Nil
            /\ file = program
            /\ phase = "init"
            /\ clock = 1
            /\ ticks = 0
            /\ last = Called("init", -1, NoErr, 0, 0, 0)
            /\ disassembly = [res |-> <<>>, err |-> NoErr]
    /\ [][\/ \E driver \in NewDrivers, s \in NewSettings : HostNew(driver, s)
          \/ HostLoad
          \/ HostTick(NewTicks)
          \/ Advance(NewClock)]_vars

\* C37: New with a driver name that is not registered returns an error and
\* no machine and does not crash, whatever the settings argument
C37_UnknownDriver ==
    [][\A driver \in NewDrivers \ Drivers, s \in NewSettings :
          HostNew(driver, s) =>
              /\ last'.err \notin {NoErr, Panic}
              /\ phase' = "failed"
              /\ c' = Nil]_vars

\* C38: New with a registered driver and settings that Validate accepts
\* does not crash and returns a machine with len(Memory) = MemorySize,
\* len(Screen) = Width*Height/8, SP = -1 and the font at 0..79
C38_ValidatedSettings ==
    [][\A driver \in Drivers, s \in NewSettings \ {Nil} :
          (Validate(s) /\ HostNew(driver, s)) =>
              /\ last'.err = NoErr
              /\ phase' = "new"
              /\ MemLen(c') = s.MemorySize
              /\ ScreenLen(c') = (s.Width * s.Height) \div 8
              /\ c'.SP = -1
              /\ MemLen(c') >= Len(Font)
              /\ \A a \in 0..(Len(Font) - 1) : c'.Memory[a] = Font[a + 1]]_vars

-----------------------------------------------------------------------------
(* The timer loop step by step, for any TimerInterval the host sets.       *)

\* the host assigns the public field TimerInterval
SetTimerInterval(d) ==
    /\ phase = "run"
    /\ c.TimerInterval # d
    /\ c' = [c EXCEPT !.TimerInterval = d]
    /\ UNCHANGED <<bigEndian, settings, file, phase, clock, ticks, last, disassembly>>

\* a call of Tick up to its timer loop, at most maxTicks of them
TickEnter(maxTicks) ==
    /\ phase = "run"
    /\ ticks < maxTicks
    /\ \E h \in {Cycle(c, bigEndian, clock, 0)} :
           /\ c' = h.m
           /\ phase' = IF h.err = Panic THEN "crashed"
                       ELSE IF h.err # NoErr THEN "failed"
                       ELSE IF h.loop THEN "drain" ELSE "run"
           /\ last' = Called("Tick", h.opcode, h.err, h.cls, h.upd, 0)
    /\ ticks' = ticks + 1
    /\ UNCHANGED <<bigEndian, settings, file, clock, disassembly>>

\* one iteration of the timer loop
DrainStep ==
    /\ phase = "drain"
    /\ clock - c.lastTimerUpdate >= c.TimerInterval
    /\ c' = [c EXCEPT !.DT = IF @ > 0 THEN @ - 1 ELSE @,
                      !.ST = IF @ > 0 THEN @ - 1 ELSE @,
                      !.lastTimerUpdate = @ + c.TimerInterval]
    /\ last' = [last EXCEPT !.beep = @ + (IF c.ST > 0 THEN 1 ELSE 0)]
    /\ UNCHANGED <<bigEndian, settings, file, phase, clock, ticks, disassembly>>

\* the condition of the timer loop is false: Tick returns nil
DrainExit ==
    /\ phase = "drain"
    /\ ~(clock - c.lastTimerUpdate >= c.TimerInterval)
    /\ phase' = "run"
    /\ UNCHANGED <<c, bigEndian, settings, file, clock, ticks, last, disassembly>>

LoopTicks == 3

LoopClock == 4

\* the intervals the host sets: none, and less and more than the default
TimerIntervals == {0, 1, 3}

\* LD V0,3; LD DT,V0; LD ST,V0 and a loop, or a key wait, with the timer
\* loop run an iteration at a time; a loop that has begun goes on
SpecLoop ==
    /\ \E driver \in Drivers,
          program \in { Program(<< \h6003, \hF015, \hF018, \h1206 >>),
                        Program(<< \hF00A, \h1200 >>) } :
            InitWith(driver, Small(2, FALSE), FALSE, program)
    /\ [][\/ HostLoad
          \/ TickEnter(LoopTicks)
          \/ DrainStep
          \/ DrainExit
          \/ Advance(LoopClock)
          \/ \E d \in TimerIntervals : SetTimerInterval(d)
          \/ \E k \in {0, 15} : KeyDown(k)]_vars
    /\ WF_vars(DrainStep)
    /\ WF_vars(DrainExit)

\* C39: every timer loop a call of Tick begins comes to its end, whatever
\* TimerInterval holds and however long ago the last timer tick was
C39_CycleTerminates == (phase = "drain") ~> (phase # "drain")

====
